---- MODULE Spec2Model ----
(***************************************************************************)
(* Recommendation core of the context-aware music recommender:             *)
(* RecommendationEngine (two-part engine and single-pipeline engine),      *)
(* PlaylistGenerator, the RecommendationLog and Playlist stores, and the   *)
(* feedback route.                                                         *)
(*                                                                         *)
(* Numbers.  Scores are fixed-point: ScoreOne stands for 1.0.  Sub-scores  *)
(* are in thousandths (PerMille stands for 1.0).  The diversity weight is  *)
(* in tenths, the diversity penalty in twentieths, so that                 *)
(* penalty * diversityWeight is in two-hundredths (AdjDen stands for 1.0)  *)
(* and finalScore is kept as a numerator over AdjDen * ScoreOne.           *)
(***************************************************************************)
EXTENDS Integers, Sequences, FiniteSets, TLC

VARIABLES
    selIn,      \* arguments of the selectFinalTracks call under study
    selOut,     \* its return value, NotRun before the call
    rankIn,     \* arguments of the rankTracks call under study
    rankOut,    \* its outcome, NotRanked before the call
    engineVersion,  \* which recommendationEngine module the server loads
    recLogs,    \* RecommendationLog collection: recId -> stored record
    playlists,  \* Playlist collection
    spotify,    \* playlists that exist on Spotify
    songs,      \* Song collection (track ids)
    now,        \* clock, in hours
    nextId,     \* next value of the id source
    last,       \* the last completed handler call: inputs and outcome
    inFlight,   \* generateAndCreatePlaylist requests under way, each at its await
    ruleStore,  \* RecommendationRule collection
    ruleCache,  \* RuleEngine.cache: entries [key, rules] that have not expired
    ruleLast,   \* the last completed RuleEngine.getCandidates call
    fnCall      \* the call of a side-effect-free method under study

pureVars == <<selIn, selOut, rankIn, rankOut>>
storeVars == <<engineVersion, recLogs, playlists, spotify, songs, now, nextId, last,
              inFlight>>
ruleVars == <<ruleStore, ruleCache, ruleLast>>
vars == <<selIn, selOut, rankIn, rankOut,
          engineVersion, recLogs, playlists, spotify, songs, now, nextId, last,
          inFlight, ruleStore, ruleCache, ruleLast, fnCall>>

\* return value of a call that has not been made yet
NotRun == [done |-> FALSE, tracks |-> <<>>]
Returned(tracks) == [done |-> TRUE, tracks |-> tracks]

ScoreOne == 1000000
PerMille == 1000
AdjDen == 200

Max2(a, b) == IF a >= b THEN a ELSE b
Min2(a, b) == IF a <= b THEN a ELSE b

\* Array.prototype.slice(0, n) for an integer n
Slice0(s, n) == IF n <= 0 THEN <<>> ELSE SubSeq(s, 1, Min2(n, Len(s)))

(***************************************************************************)
(* selectFinalTracks                                                       *)
(***************************************************************************)

\* diversityPenalty of one candidate, in twentieths
DiversityPenalty(hasSeenArtist, selectedLen) ==
    LET base == IF hasSeenArtist THEN 6 ELSE 0
    IN  IF selectedLen > 0 /\ selectedLen % 5 = 0 THEN (base * 3) \div 2 ELSE base

\* track.score * (1 - diversityPenalty * diversityWeight), numerator over AdjDen
AdjustedScore(score, penalty, diversityWeight) ==
    score * (AdjDen - penalty * diversityWeight)

\* mutant: the admission test without its lenient window
AdmitsAboveThresholdOnly(adjusted, selectedLen, targetLength) ==
    10 * adjusted > 2 * AdjDen * ScoreOne

\* adjustedScore > 0.2 || selected.length < targetLength * 0.7
Admits(adjusted, selectedLen, targetLength) ==
    \/ 10 * adjusted > 2 * AdjDen * ScoreOne
    \/ 10 * selectedLen < 7 * targetLength

\* the for-loop over rankedTracks, from index i on
RECURSIVE SelectMainPass(_, _, _, _, _, _)
SelectMainPass(rankedTracks, i, selected, seenArtists, targetLength, diversityWeight) ==
    IF i > Len(rankedTracks) \/ Len(selected) >= targetLength
    THEN selected
    ELSE LET track == rankedTracks[i]
             hasSeenArtist == track.artists \cap seenArtists # {}
             penalty == DiversityPenalty(hasSeenArtist, Len(selected))
             adjusted == AdjustedScore(track.score, penalty, diversityWeight)
         IN  IF Admits(adjusted, Len(selected), targetLength)
             THEN SelectMainPass(rankedTracks, i + 1,
                                 Append(selected, [finalScore |-> adjusted] @@ track),
                                 seenArtists \cup track.artists,
                                 targetLength, diversityWeight)
             ELSE SelectMainPass(rankedTracks, i + 1, selected, seenArtists,
                                 targetLength, diversityWeight)

\* mutant: the under-fill block without its filter on already selected ids
FillRemainingUnfiltered(rankedTracks, selected, targetLength) ==
    IF Len(selected) < targetLength
    THEN LET remaining == Slice0(rankedTracks, targetLength - Len(selected))
         IN  selected \o [k \in 1..Len(remaining) |->
                            [finalScore |-> remaining[k].score * ((AdjDen * 8) \div 10)]
                                @@ remaining[k]]
    ELSE selected

\* the under-fill block: top remaining tracks, finalScore = score * 0.8
FillRemaining(rankedTracks, selected, targetLength) ==
    IF Len(selected) < targetLength
    THEN LET NotSelected(t) == ~ \E k \in 1..Len(selected) : selected[k].id = t.id
             remaining == Slice0(SelectSeq(rankedTracks, NotSelected),
                                 targetLength - Len(selected))
         IN  selected \o [k \in 1..Len(remaining) |->
                            [finalScore |-> remaining[k].score * ((AdjDen * 8) \div 10)]
                                @@ remaining[k]]
    ELSE selected

selectFinalTracks(rankedTracks, targetLength, diversityWeight) ==
    LET main == SelectMainPass(rankedTracks, 1, <<>>, {}, targetLength, diversityWeight)
    IN  Slice0(FillRemaining(rankedTracks, main, targetLength), targetLength)

(***************************************************************************)
(* rankTracks and its scoring helpers.  A JavaScript TypeError inside the  *)
(* try block is modelled by the *Throws predicates; the values are the     *)
(* ones computed when nothing throws.                                      *)
(***************************************************************************)

\* arguments as the callers build them
WellFormed == "wellFormed"
Malformed == "malformed"          \* null / undefined
EmptyArray == "emptyArray"        \* the literal [] passed as candidates

WordLen == [w \in {"happy", "joy", "calm", "peace", "rain", "blue"} |->
              CASE w = "joy" -> 3
                [] w \in {"calm", "rain", "blue"} -> 4
                [] OTHER -> 5]

Clamp01(x, one) == Max2(0, Min2(one, x))

\* inferTrackGenres: copies the candidate genres as {name, confidence} objects
inferTrackGenres(candidateGenres) ==
    Slice0([k \in 1..Len(candidateGenres) |->
              [name |-> candidateGenres[k].name, confidence |-> candidateGenres[k].weight]], 3)

\* candidates.genres is read before anything else; the inferred genres are
\* objects, so tg.toLowerCase() throws as soon as there is one to look at
GenreMatchThrows(candidates) ==
    \/ candidates.kind # WellFormed
    \/ Len(inferTrackGenres(candidates.genres)) > 0

calculateMoodMatch(track, context) ==
    LET happy == IF context.mood = "happy" /\ track.words \cap {"happy", "joy"} # {}
                 THEN 500 ELSE 0
        calm  == IF context.mood = "calm" /\ track.words \cap {"calm", "peace"} # {}
                 THEN 500 ELSE 0
        rain  == IF context.weather = "rainy" /\ "rain" \in track.words THEN 300 ELSE 0
    IN  Clamp01(happy + calm + rain, PerMille)

ContextScoreThrows(track, context, candidates) ==
    \/ GenreMatchThrows(candidates)
    \/ context.kind # WellFormed

\* first userArtists entry naming one of the track's artists
ArtistBoost(track, userArtists) ==
    LET hits == { k \in 1..Len(userArtists) : userArtists[k].artist \in track.artists }
    IN  IF hits = {} THEN 0
        ELSE userArtists[CHOOSE k \in hits : \A j \in hits : k <= j].boost

calculateContextScore(track, context, candidates) ==
    LET genrePart  == 0     \* trackGenres is empty whenever this value is computed
        artistPart == (ArtistBoost(track, candidates.userArtists) * 4) \div 10
        moodPart   == (calculateMoodMatch(track, context) * 3) \div 10
    IN  Clamp01(genrePart + artistPart + moodPart, PerMille)

PreferenceScoreThrows(userProfile) == userProfile.kind # WellFormed

\* track.popularity || 50
PopularityOr50(track) == IF track.popularity = 0 THEN 50 ELSE track.popularity

calculatePreferenceScore(track, userProfile) ==
    LET isTopArtist == track.artists \cap userProfile.topArtists # {}
        wordOverlap == Cardinality({ w \in track.words \cap userProfile.topWords :
                                       WordLen[w] > 3 })
        popularity  == PopularityOr50(track)
        tier        == IF popularity >= 30 /\ popularity <= 80 THEN 300
                       ELSE IF popularity > 80 THEN 200 ELSE 100
    IN  Clamp01((IF isTopArtist THEN 400 ELSE 0)
                + (IF wordOverlap > 0 THEN Min2(300, wordOverlap * 100) ELSE 0)
                + tier, PerMille)

isRecentlyPlayed(track, recentIds) == track.id \in recentIds

\* mutant: the known-artist test comes before the recently-played test
noveltyKnownArtistFirst(track, userProfile) ==
    IF track.artists \cap userProfile.topArtists # {} THEN 600
    ELSE IF isRecentlyPlayed(track, userProfile.recentIds) THEN 100
    ELSE IF track.popularity > 20 THEN 800
    ELSE 500

calculateNoveltyScore(track, userProfile) ==
    LET isKnownArtist == track.artists \cap userProfile.topArtists # {}
    IN  IF isRecentlyPlayed(track, userProfile.recentIds) THEN 100
        ELSE IF isKnownArtist THEN 600
        ELSE IF track.popularity > 20 THEN 800
        ELSE 500

\* (track.popularity || 50) / 100, in thousandths
popularityScoreOf(track) == PopularityOr50(track) * 10

\* the weighted sum and the two penalties, before the clamp
RawScore(contextScore, preferenceScore, popularityScore, noveltyScore) ==
    400 * contextScore + 350 * preferenceScore + 150 * popularityScore + 100 * noveltyScore

\* mutant: only the stronger of the two penalties is applied
ApplyStrongerPenalty(score, recent, explicitAvoided) ==
    IF explicitAvoided THEN (score * 5) \div 10
    ELSE IF recent THEN (score * 7) \div 10 ELSE score

ApplyPenalties(score, recent, explicitAvoided) ==
    LET afterRecent == IF recent THEN (score * 7) \div 10 ELSE score
    IN  IF explicitAvoided THEN (afterRecent * 5) \div 10 ELSE afterRecent

Reasons(contextScore, preferenceScore, noveltyScore) ==
    (IF contextScore > 700 THEN <<"Great context match">> ELSE <<>>)
    \o (IF preferenceScore > 700 THEN <<"Matches your taste">> ELSE <<>>)
    \o (IF noveltyScore > 800 THEN <<"New discovery">> ELSE <<>>)

\* the body of the map callback
ScoreTrack(track, context, userProfile, candidates) ==
    LET contextScore    == calculateContextScore(track, context, candidates)
        preferenceScore == calculatePreferenceScore(track, userProfile)
        popularityScore == popularityScoreOf(track)
        noveltyScore    == calculateNoveltyScore(track, userProfile)
        raw   == RawScore(contextScore, preferenceScore, popularityScore, noveltyScore)
        score == ApplyPenalties(raw, isRecentlyPlayed(track, userProfile.recentIds),
                                track.explicit /\ userProfile.avoidExplicit)
    IN  [score |-> Clamp01(score, ScoreOne),
         reasons |-> Reasons(contextScore, preferenceScore, noveltyScore),
         contextScore |-> contextScore,
         preferenceScore |-> preferenceScore,
         popularityScore |-> popularityScore,
         noveltyScore |-> noveltyScore] @@ track

\* the callback runs once per track, so an empty pool cannot throw
RankThrows(tracks, context, userProfile, candidates) ==
    /\ Len(tracks) > 0
    /\ \E k \in 1..Len(tracks) :
          \/ ContextScoreThrows(tracks[k], context, candidates)
          \/ PreferenceScoreThrows(userProfile)

\* Array.prototype.sort((a, b) => b.score - a.score): stable, descending
RECURSIVE InsertByScore(_, _)
InsertByScore(sorted, t) ==
    IF sorted = <<>> THEN <<t>>
    ELSE IF Head(sorted).score >= t.score
         THEN <<Head(sorted)>> \o InsertByScore(Tail(sorted), t)
         ELSE <<t>> \o sorted

RECURSIVE SortByScoreDesc(_)
SortByScoreDesc(s) ==
    IF s = <<>> THEN <<>>
    ELSE InsertByScore(SortByScoreDesc(SubSeq(s, 1, Len(s) - 1)), s[Len(s)])

\* the catch block: every track with score 0.5 and no reasons
RankFallback(tracks) ==
    [k \in 1..Len(tracks) |-> [score |-> ScoreOne \div 2, reasons |-> <<>>] @@ tracks[k]]

\* mutant: rankTracks without its try/catch
rankTracksNoCatch(tracks, context, userProfile, candidates) ==
    IF RankThrows(tracks, context, userProfile, candidates)
    THEN [raised |-> TRUE, degraded |-> TRUE, tracks |-> <<>>]
    ELSE [raised |-> FALSE, degraded |-> FALSE,
          tracks |-> SortByScoreDesc([k \in 1..Len(tracks) |->
                        ScoreTrack(tracks[k], context, userProfile, candidates)])]

\* outcome of rankTracks: raised tells whether the promise rejects
rankTracks(tracks, context, userProfile, candidates) ==
    IF RankThrows(tracks, context, userProfile, candidates)
    THEN [raised |-> FALSE, degraded |-> TRUE, tracks |-> RankFallback(tracks)]
    ELSE [raised |-> FALSE, degraded |-> FALSE,
          tracks |-> SortByScoreDesc([k \in 1..Len(tracks) |->
                        ScoreTrack(tracks[k], context, userProfile, candidates)])]

(***************************************************************************)
(* RecommendationEngine: candidate fetch, the two branches, the two        *)
(* versions of generateRecommendations, and the audit log write.           *)
(*                                                                         *)
(* env is what the collaborators answer during one call:                   *)
(*   userFound, tokenOk      User.findById / ensureValidToken              *)
(*   userPlaylists           "error", or one entry per playlist, each      *)
(*                           [ok |-> FALSE] or [ok |-> TRUE, tracks |-> _] *)
(*   recs, search            catalog answers: [ok |-> FALSE] or tracks     *)
(*   candidates              what ruleEngine.getCandidates returned        *)
(*   logStoreOk              whether the log store is reachable            *)
(* uuidv4 is taken to yield a fresh id on every call.                      *)
(***************************************************************************)

NullTracks == [null |-> TRUE, tracks |-> <<>>]
SomeTracks(tracks) == [null |-> FALSE, tracks |-> tracks]

\* tracks.filter((t, i, self) => i === self.findIndex(x => x.id === t.id))
removeDuplicateTracks(tracks) ==
    LET FirstOfId(k) == \A j \in 1..(k - 1) : tracks[j].id # tracks[k].id
        keep == { k \in 1..Len(tracks) : FirstOfId(k) }
        RECURSIVE Build(_)
        Build(k) == IF k > Len(tracks) THEN <<>>
                    ELSE (IF k \in keep THEN <<tracks[k]>> ELSE <<>>) \o Build(k + 1)
    IN  Build(1)

filterTracksByContext(tracks, context) ==
    LET Keep(t) == ~(context.timeOfDay = "morning" /\ t.explicit)
    IN  SelectSeq(tracks, Keep)

\* [raised, tracks]: the catch block turns any catalog error into []
fetchCandidateTracks(env, candidates, targetLength) ==
    LET seedGenres  == Slice0(candidates.genres, 3)
        seedArtists == Slice0(candidates.userArtists, 2)
        askRecs     == Len(seedGenres) > 0 \/ Len(seedArtists) > 0
        recsThrows  == askRecs /\ ~env.recs.ok
        fromRecs    == IF askRecs /\ env.recs.ok
                       THEN Slice0(env.recs.tracks, Min2(targetLength * 2, 100))
                       ELSE <<>>
        askSearch   == Len(fromRecs) < targetLength /\ Len(candidates.themes) > 0
        searchThrows == askSearch /\ ~env.search.ok
        fromSearch  == IF askSearch /\ env.search.ok
                       THEN Slice0(env.search.tracks, targetLength)
                       ELSE <<>>
    IN  IF recsThrows \/ searchThrows THEN <<>>
        ELSE Slice0(removeDuplicateTracks(fromRecs \o fromSearch), targetLength * 3)

\* selectedTracks.map(t => ({...t, source, reasons: [...(t.reasons || []), reason]}))
TagSource(tracks, source, reason) ==
    [k \in 1..Len(tracks) |->
        [source |-> source, reasons |-> Append(tracks[k].reasons, reason)] @@ tracks[k]]

\* null when the user has no usable playlist tracks or anything fails
getRecommendationsFromUserPlaylists(env, context, userProfile, targetCount) ==
    IF ~env.userPlaylists.ok \/ Len(env.userPlaylists.lists) = 0 THEN NullTracks
    ELSE LET lists == Slice0(env.userPlaylists.lists, 10)
             RECURSIVE Gather(_)
             Gather(k) == IF k > Len(lists) THEN <<>>
                          ELSE (IF lists[k].ok THEN Slice0(lists[k].tracks, 50) ELSE <<>>)
                               \o Gather(k + 1)
             playlistTracks == Gather(1)
             contextFiltered ==
                 filterTracksByContext(removeDuplicateTracks(playlistTracks), context)
         IN  IF Len(playlistTracks) = 0 \/ Len(contextFiltered) = 0 THEN NullTracks
             ELSE LET ranked == rankTracks(contextFiltered, context, userProfile,
                                           [kind |-> EmptyArray])
                  IN  IF ranked.raised THEN NullTracks
                      ELSE SomeTracks(TagSource(
                               selectFinalTracks(ranked.tracks, targetCount, 5),
                               "user_playlist", "From your playlists"))

\* [raised, tracks]: rethrows, also when the catalog yields no candidate
getGlobalRecommendations(env, context, userProfile, targetCount) ==
    LET candidateTracks == fetchCandidateTracks(env, env.candidates, targetCount * 2)
        ranked == rankTracks(candidateTracks, context, userProfile, env.candidates)
    IN  IF Len(candidateTracks) = 0 \/ ranked.raised
        THEN [raised |-> TRUE, tracks |-> <<>>]
        ELSE [raised |-> FALSE,
              tracks |-> TagSource(selectFinalTracks(ranked.tracks, targetCount, 3),
                                   "global", "Discover new music")]

\* options.targetLength || 20
TargetLengthOr20(options) == IF options.targetLength = 0 THEN 20 ELSE options.targetLength

\* options.diversityWeight || 0.3
DiversityWeightOr03(options) ==
    IF ~options.hasWeight \/ options.diversityWeight = 0 THEN 3 ELSE options.diversityWeight

\* mutant: the global branch asked for the whole target length
generateTwoPartWholeGlobal(env, context, userProfile, options) ==
    LET targetLength == TargetLengthOr20(options)
        fromUser   == getRecommendationsFromUserPlaylists(env, context, userProfile,
                                                          (targetLength * 4) \div 10)
        fromGlobal == getGlobalRecommendations(env, context, userProfile, targetLength)
    IN  IF fromGlobal.raised
        THEN [raised |-> TRUE, fromUserPlaylists |-> NullTracks,
              fromGlobalRecommendations |-> <<>>, combined |-> <<>>]
        ELSE [raised |-> FALSE,
              fromUserPlaylists |-> IF Len(fromUser.tracks) > 0 THEN fromUser ELSE NullTracks,
              fromGlobalRecommendations |-> fromGlobal.tracks,
              combined |-> fromUser.tracks \o fromGlobal.tracks]

generateTwoPartRecommendations(env, context, userProfile, options) ==
    LET targetLength       == TargetLengthOr20(options)
        userPlaylistTarget == (targetLength * 4) \div 10
        globalTarget       == targetLength - userPlaylistTarget
        fromUser   == getRecommendationsFromUserPlaylists(env, context, userProfile,
                                                          userPlaylistTarget)
        fromGlobal == getGlobalRecommendations(env, context, userProfile, globalTarget)
    IN  IF fromGlobal.raised
        THEN [raised |-> TRUE, fromUserPlaylists |-> NullTracks,
              fromGlobalRecommendations |-> <<>>, combined |-> <<>>]
        ELSE [raised |-> FALSE,
              fromUserPlaylists |-> IF Len(fromUser.tracks) > 0 THEN fromUser ELSE NullTracks,
              fromGlobalRecommendations |-> fromGlobal.tracks,
              combined |-> fromUser.tracks \o fromGlobal.tracks]

(***************************************************************************)
(* RecommendationLog: schema validation and the write                      *)
(***************************************************************************)
RecommendationTypes == {"context_based", "collaborative", "content_based", "hybrid", "fallback"}

\* contextId is a required ObjectId; a context built by the context service
\* carries a uuid string, a context sent by the client may carry anything
LogSchemaValid(logData) ==
    /\ logData.contextId = "objectId"
    /\ logData.recommendationType \in RecommendationTypes

\* mutant: logRecommendation without its try/catch
logRecommendationRethrows(logData, logStoreOk, stored) ==
    LET accepted == logStoreOk /\ LogSchemaValid(logData) /\ logData.recId \notin stored
    IN  [raised |-> ~accepted, saved |-> accepted]

\* new RecommendationLog(logData).save() inside try/catch: never raises
logRecommendation(logData, logStoreOk, stored) ==
    LET accepted == logStoreOk /\ LogSchemaValid(logData) /\ logData.recId \notin stored
    IN  [raised |-> FALSE, saved |-> accepted]

ServiceUnavailable == "Failed to generate recommendations - service unavailable"

LogData(recId, userId, context, type, totalTracks) ==
    [recId |-> recId, userId |-> userId, contextId |-> context.contextId,
     recommendationType |-> type, totalTracks |-> totalTracks]

\* the catch block of the two-part generateRecommendations
TwoPartFailure(recId, userId, context, env, stored) ==
    LET w == logRecommendation(LogData(recId, userId, context, "fallback", 0),
                               env.logStoreOk, stored)
    IN  [result |-> [status |-> "error", message |-> ServiceUnavailable, recId |-> recId,
                     fromUserPlaylists |-> NullTracks, fromGlobalRecommendations |-> <<>>,
                     recommendations |-> <<>>, hasRecommendations |-> FALSE],
         logged |-> IF w.saved
                    THEN <<LogData(recId, userId, context, "fallback", 0)>> ELSE <<>>]

\* generateRecommendations of the two-part engine
generateRecommendationsTwoPart(recId, userId, context, userProfile, options, env, stored) ==
    IF ~env.userFound \/ ~env.tokenOk
    THEN TwoPartFailure(recId, userId, context, env, stored)
    ELSE LET twoPart == generateTwoPartRecommendations(env, context, userProfile, options)
             logData == LogData(recId, userId, context, "two_part_hybrid", 0)
             w       == logRecommendation(logData, env.logStoreOk, stored)
         IN  IF twoPart.raised \/ w.raised
             THEN TwoPartFailure(recId, userId, context, env, stored)
             ELSE [result |-> [status |-> "ok", message |-> "", recId |-> recId,
                               fromUserPlaylists |-> twoPart.fromUserPlaylists,
                               fromGlobalRecommendations |-> twoPart.fromGlobalRecommendations,
                               recommendations |-> <<>>, hasRecommendations |-> FALSE],
                   logged |-> IF w.saved THEN <<logData>> ELSE <<>>]

\* the made-up track of getFallbackRecommendations
FallbackTrackId == 999
FallbackTrack ==
    [id |-> FallbackTrackId, artists |-> {"Popular Artist 1"}, popularity |-> 80,
     explicit |-> FALSE, words |-> {}, uri |-> TRUE, score |-> ScoreOne \div 2,
     reasons |-> <<"Fallback recommendation">>]

\* the catch block of the single-pipeline generateRecommendations; the result
\* carries a second fresh id, not the one that was logged
HybridFailure(recId, userId, context, env, stored) ==
    LET w == logRecommendation(LogData(recId, userId, context, "fallback", 0),
                               env.logStoreOk, stored)
    IN  [result |-> [status |-> "ok", message |-> "", recId |-> recId + 1,
                     fromUserPlaylists |-> NullTracks, fromGlobalRecommendations |-> <<>>,
                     recommendations |-> <<FallbackTrack>>, hasRecommendations |-> TRUE],
         logged |-> IF w.saved
                    THEN <<LogData(recId, userId, context, "fallback", 0)>> ELSE <<>>]

\* generateRecommendations of the single-pipeline engine
generateRecommendationsHybrid(recId, userId, context, userProfile, options, env, stored) ==
    IF ~env.userFound \/ ~env.tokenOk
    THEN HybridFailure(recId, userId, context, env, stored)
    ELSE LET targetLength    == TargetLengthOr20(options)
             candidateTracks == fetchCandidateTracks(env, env.candidates, targetLength)
             ranked  == rankTracks(candidateTracks, context, userProfile, env.candidates)
             recommendations == selectFinalTracks(ranked.tracks, targetLength,
                                                  DiversityWeightOr03(options))
             logData == LogData(recId, userId, context, "hybrid", Len(recommendations))
             w       == logRecommendation(logData, env.logStoreOk, stored)
         IN  IF Len(candidateTracks) = 0 \/ ranked.raised \/ w.raised
             THEN HybridFailure(recId, userId, context, env, stored)
             ELSE [result |-> [status |-> "ok", message |-> "", recId |-> recId,
                               fromUserPlaylists |-> NullTracks,
                               fromGlobalRecommendations |-> <<>>,
                               recommendations |-> recommendations,
                               hasRecommendations |-> TRUE],
                   logged |-> IF w.saved THEN <<logData>> ELSE <<>>]

TwoPart == "twoPart"
Hybrid == "hybrid"

generateRecommendations(version, recId, userId, context, userProfile, options, env, stored) ==
    IF version = TwoPart
    THEN generateRecommendationsTwoPart(recId, userId, context, userProfile, options, env, stored)
    ELSE generateRecommendationsHybrid(recId, userId, context, userProfile, options, env, stored)

(***************************************************************************)
(* Inputs of the selector: ranked pools are sorted by descending score     *)
(* (rankTracks sorts, and its error path returns equal scores).            *)
(***************************************************************************)
MaxPool == 6
MaxTarget == 7

ArtistNames == {"Artist X", "Artist Y"}
ScoreLevels == {ScoreOne \div 10, ScoreOne \div 4, (ScoreOne * 9) \div 10}
WeightLevels == {0, 5, 10}

SortedDesc(scores) == \A k \in 1..(Len(scores) - 1) : scores[k] >= scores[k + 1]

\* ids: position k has id k, or else the last position repeats id 1
PoolIds(n) == { [k \in 1..n |-> IF k = dup THEN 1 ELSE k] :
                  dup \in {0} \cup (IF n > 1 THEN {n} ELSE {}) }

RankedPools ==
    UNION { { [k \in 1..n |-> [id |-> ids[k], artists |-> {arts[k]}, score |-> scores[k]]] :
                ids \in PoolIds(n),
                arts \in { a \in [1..n -> ArtistNames] : n > 0 => a[1] = "Artist X" },
                scores \in { s \in [1..n -> ScoreLevels] : SortedDesc(s) } }
            : n \in 0..MaxPool }

DistinctIds(pool) == \A a, b \in 1..Len(pool) : pool[a].id = pool[b].id => a = b

\* scores that fall from 0.9 to 0.25 after position high and to 0.1 after
\* position mid
SteppedScore(k, high, mid) ==
    IF k <= high THEN (ScoreOne * 9) \div 10
    ELSE IF k <= mid THEN ScoreOne \div 4 ELSE ScoreOne \div 10

\* a playlist of the default length 20 asked of 16 ranked tracks
DefaultTarget == 20
LongPoolLen == 16
LongPoolInputs ==
    { [pool |-> [k \in 1..LongPoolLen |->
                   [id |-> k,
                    artists |-> {IF k % 2 = 1 THEN "Artist X" ELSE "Artist Y"},
                    score |-> SteppedScore(k, high, high)]],
       target |-> DefaultTarget, weight |-> 3] : high \in 0..LongPoolLen }

\* ten ranked tracks, six of them by 'Artist X' and four by four other
\* artists, asked for five tracks with diversity weight 0.3
CrowdedPoolLen == 10
CrowdedArtistCount == 6
CrowdedTarget == 5
OtherArtists == <<"Artist P", "Artist Q", "Artist R", "Artist S">>
CrowdedPoolInputs ==
    { [pool |-> [k \in 1..CrowdedPoolLen |->
                   [id |-> k,
                    artists |-> {IF k \in xs THEN "Artist X"
                                 ELSE OtherArtists[Cardinality({ j \in 1..k : j \notin xs })]},
                    score |-> SteppedScore(k, high, mid)]],
       target |-> CrowdedTarget, weight |-> 3] :
        xs \in { x \in SUBSET (1..CrowdedPoolLen) : Cardinality(x) = CrowdedArtistCount },
        high \in {0, 5, 10}, mid \in {5, 10} }

NoSelIn == [pool |-> <<>>, target |-> 0, weight |-> 0]
NoRankIn == [tracks |-> <<>>, context |-> [kind |-> Malformed],
             userProfile |-> [kind |-> Malformed], candidates |-> [kind |-> Malformed]]
NotRanked == [done |-> FALSE]

NoCall == [seq |-> 0, op |-> "none"]

\* the rule engine before any rule is stored and any call is made
NoRuleCall == [op |-> "none"]
RulesIdle ==
    /\ ruleStore = <<>>
    /\ ruleCache = {}
    /\ ruleLast = NoRuleCall

\* no side-effect-free method is under study
NoFnCall == [fn |-> "none", done |-> FALSE]

StoresInit ==
    /\ recLogs = << >>
    /\ playlists = {}
    /\ spotify = {}
    /\ songs = {}
    /\ now = 0
    /\ nextId = 1
    /\ last = NoCall
    /\ inFlight = << >>

SelInit ==
    /\ selIn \in [pool : RankedPools, target : 0..MaxTarget, weight : WeightLevels]
                  \cup LongPoolInputs \cup CrowdedPoolInputs
    /\ selOut = NotRun
    /\ rankIn = NoRankIn
    /\ rankOut = NotRanked
    /\ engineVersion = TwoPart
    /\ StoresInit
    /\ RulesIdle
    /\ fnCall = NoFnCall

SelectFinalTracksCall ==
    /\ selOut = NotRun
    /\ selOut' = Returned(selectFinalTracks(selIn.pool, selIn.target, selIn.weight))
    /\ UNCHANGED <<selIn, rankIn, rankOut>>
    /\ UNCHANGED storeVars
    /\ UNCHANGED ruleVars
    /\ UNCHANGED fnCall

SpecSelect == SelInit /\ [][SelectFinalTracksCall]_vars

\* C1: for a ranked pool with pairwise-distinct ids, every target >= 0 and every
\* diversity weight in [0,1], selectFinalTracks returns exactly
\* min(target, poolSize) tracks, main pass and under-fill fallback together.
C1_ExactLength ==
    (selOut.done /\ DistinctIds(selIn.pool))
        => Len(selOut.tracks) = Min2(selIn.target, Len(selIn.pool))

\* C1 witness: the main pass admitted fewer than target tracks of a pool with
\* distinct ids and the under-fill fallback completed the list
C1_Witness ==
    /\ selOut.done
    /\ DistinctIds(selIn.pool)
    /\ Len(SelectMainPass(selIn.pool, 1, <<>>, {}, selIn.target, selIn.weight)) < selIn.target
    /\ Len(selOut.tracks) = selIn.target
    /\ selIn.target > 5

(***************************************************************************)
(* Inputs of the ranker                                                    *)
(***************************************************************************)
MaxRankPool == 2

PopularityLevels == <<0 - 20, 0, 15, 60, 150>>
TrackArtists == <<"Artist A", "Artist Z">>

\* a track is plain, or explicit with mood and weather words in its name;
\* shapes are numbered so that a pool can be listed once, whatever its order
NumShapes == Len(PopularityLevels) * Len(TrackArtists) * 2
ShapeAt(i) ==
    LET p == PopularityLevels[((i - 1) % Len(PopularityLevels)) + 1]
        a == TrackArtists[(((i - 1) \div Len(PopularityLevels)) % Len(TrackArtists)) + 1]
        x == (i - 1) \div (Len(PopularityLevels) * Len(TrackArtists)) = 1
    IN  [artists |-> {a}, popularity |-> p, explicit |-> x,
         words |-> IF x THEN {"happy", "rain"} ELSE {}]

RawPools ==
    UNION { { [k \in 1..n |-> [id |-> k] @@ ShapeAt(f[k])] :
                f \in { g \in [1..n -> 1..NumShapes] :
                          \A k \in 1..(n - 1) : g[k] < g[k + 1] } }
            : n \in 0..MaxRankPool }

Contexts ==
    { [kind |-> Malformed],
      [kind |-> WellFormed, mood |-> "happy", weather |-> "rainy"],
      [kind |-> WellFormed, mood |-> "none", weather |-> "sunny"] }

UserProfiles ==
    { [kind |-> Malformed] }
    \cup { [kind |-> WellFormed, topArtists |-> ta, topWords |-> {"happy", "rain", "joy"},
            recentIds |-> r, avoidExplicit |-> ae] :
            ta \in {{}, {"Artist A"}}, r \in {{}, {1}}, ae \in BOOLEAN }

CandidateProfiles ==
    { [kind |-> EmptyArray],
      [kind |-> WellFormed, genres |-> <<>>, userArtists |-> <<>>],
      [kind |-> WellFormed, genres |-> <<>>,
       userArtists |-> <<[artist |-> "Artist A", boost |-> 500]>>],
      [kind |-> WellFormed, genres |-> <<[name |-> "pop", weight |-> 1000]>>,
       userArtists |-> <<[artist |-> "Artist A", boost |-> 500]>>] }

RankInit ==
    /\ rankIn \in [tracks : RawPools, context : Contexts,
                    userProfile : UserProfiles, candidates : CandidateProfiles]
    /\ rankOut = NotRanked
    /\ selIn = NoSelIn
    /\ selOut = NotRun
    /\ engineVersion = TwoPart
    /\ StoresInit
    /\ RulesIdle
    /\ fnCall = NoFnCall

RankTracksCall ==
    /\ ~rankOut.done
    /\ rankOut' = [done |-> TRUE] @@
                    rankTracks(rankIn.tracks, rankIn.context, rankIn.userProfile,
                               rankIn.candidates)
    /\ UNCHANGED <<rankIn, selIn, selOut>>
    /\ UNCHANGED storeVars
    /\ UNCHANGED ruleVars
    /\ UNCHANGED fnCall

SpecRank == RankInit /\ [][RankTracksCall]_vars

InUnit(x, one) == 0 <= x /\ x <= one

\* C9: every track returned by rankTracks has its final score and each of
\* contextScore, preferenceScore, popularityScore and noveltyScore in [0,1],
\* for every input, popularity values outside 0..100 included.
C9_ScoresInUnitInterval ==
    (rankOut.done /\ ~rankOut.degraded) =>
        \A k \in 1..Len(rankOut.tracks) :
            LET t == rankOut.tracks[k]
            IN  /\ InUnit(t.score, ScoreOne)
                /\ InUnit(t.contextScore, PerMille)
                /\ InUnit(t.preferenceScore, PerMille)
                /\ InUnit(t.popularityScore, PerMille)
                /\ InUnit(t.noveltyScore, PerMille)

\* the tracks of a pool, as the set of their input fields
Stripped(t) == [id |-> t.id, artists |-> t.artists, popularity |-> t.popularity,
                explicit |-> t.explicit, words |-> t.words]
TrackBag(s) == [x \in { Stripped(s[k]) : k \in 1..Len(s) } |->
                  Cardinality({ k \in 1..Len(s) : Stripped(s[k]) = x })]

\* C10: rankTracks never raises; it returns the tracks of the pool, and when an
\* internal error occurred every returned track has score 0.5 and no reasons.
C10_RankNeverRaises ==
    rankOut.done =>
        /\ ~rankOut.raised
        /\ TrackBag(rankOut.tracks) = TrackBag(rankIn.tracks)
        /\ rankOut.degraded =>
              \A k \in 1..Len(rankOut.tracks) :
                  /\ rankOut.tracks[k].score = ScoreOne \div 2
                  /\ rankOut.tracks[k].reasons = <<>>

\* C10 witness: a non-empty pool ranked with malformed arguments came back degraded
C10_Witness ==
    /\ rankOut.done
    /\ rankOut.degraded
    /\ Len(rankOut.tracks) = MaxRankPool
    /\ rankIn.userProfile.kind = Malformed

(***************************************************************************)
(* Direct calls of generateRecommendations                                 *)
(***************************************************************************)
MaxCalls == 1

UserIds == {"u1"}

\* a Spotify track as the catalog and the playlists return it
SpotifyTrack(id, artist, explicit) ==
    [id |-> id, artists |-> {artist}, popularity |-> 60, explicit |-> explicit,
     words |-> {}, uri |-> TRUE]

PlaylistTracks == <<SpotifyTrack(11, "Artist A", TRUE), SpotifyTrack(12, "Artist Z", FALSE),
                    SpotifyTrack(13, "Artist Y", FALSE)>>
CatalogTracks == <<SpotifyTrack(21, "Artist A", FALSE), SpotifyTrack(22, "Artist A", FALSE),
                   SpotifyTrack(23, "Artist Z", TRUE)>>
SearchTracks == <<SpotifyTrack(23, "Artist Z", TRUE), SpotifyTrack(24, "Artist Y", FALSE)>>

\* getUserPlaylists / getPlaylistTracks answers
UserPlaylistAnswers ==
    { [ok |-> FALSE, lists |-> <<>>],
      [ok |-> TRUE, lists |-> <<>>],
      [ok |-> TRUE, lists |-> <<[ok |-> TRUE, tracks |-> PlaylistTracks],
                               [ok |-> FALSE, tracks |-> <<>>]>>] }

\* getRecommendations / searchTracks answers
RecsAnswers == { [ok |-> FALSE, tracks |-> <<>>], [ok |-> TRUE, tracks |-> <<>>],
                 [ok |-> TRUE, tracks |-> CatalogTracks] }
SearchAnswers == { [ok |-> FALSE, tracks |-> <<>>], [ok |-> TRUE, tracks |-> SearchTracks] }

\* candidate profiles of the rule engine: rule-derived, or the fallback profile
EngineCandidates ==
    { [kind |-> WellFormed, themes |-> <<"chill">>,
       genres |-> <<[name |-> "pop", weight |-> 1000]>>,
       userArtists |-> <<[artist |-> "Artist A", boost |-> 500]>>],
      [kind |-> WellFormed, themes |-> <<"popular">>, genres |-> <<>>, userArtists |-> <<>>] }

\* a call whose preamble fails asks the collaborators nothing else
Envs ==
    { [userFound |-> uf, tokenOk |-> tk, userPlaylists |-> up, recs |-> rc, search |-> se,
       candidates |-> ca, logStoreOk |-> lg] :
        uf \in BOOLEAN, tk \in BOOLEAN, up \in UserPlaylistAnswers, rc \in RecsAnswers,
        se \in SearchAnswers, ca \in EngineCandidates, lg \in BOOLEAN }

PreambleOk(env) == env.userFound /\ env.tokenOk
QuietEnv(env) ==
    /\ env.userPlaylists = [ok |-> FALSE, lists |-> <<>>]
    /\ env.recs = [ok |-> FALSE, tracks |-> <<>>]
    /\ env.search = [ok |-> FALSE, tracks |-> <<>>]
    /\ env.candidates.genres = <<>>
    /\ (env.userFound \/ env.tokenOk)
EngineEnvs == { env \in Envs : PreambleOk(env) \/ QuietEnv(env) }

\* contextId: an ObjectId sent by the client, or the uuid of the context service
EngineContexts ==
    { [kind |-> WellFormed, mood |-> "happy", weather |-> "rainy", city |-> "Jakarta",
       timeOfDay |-> "morning", contextId |-> cid] : cid \in {"objectId", "uuid"} }

EngineProfile ==
    [kind |-> WellFormed, topArtists |-> {"Artist A"}, topWords |-> {"happy"},
     recentIds |-> {}, avoidExplicit |-> FALSE]

\* targetLength 0 stands for an absent option
EngineOptions == { [targetLength |-> 0, diversityWeight |-> 0, hasWeight |-> FALSE],
                   [targetLength |-> 2, diversityWeight |-> 10, hasWeight |-> TRUE],
                   [targetLength |-> 3, diversityWeight |-> 0, hasWeight |-> TRUE] }

\* a stored RecommendationLog document with the schema defaults
NoInteraction ==
    [created |-> FALSE, clicked |-> FALSE, opened |-> FALSE, played |-> FALSE,
     saved |-> FALSE, shared |-> FALSE, rating |-> 0, tracksPlayed |-> 0,
     completionRate |-> 0]
NewLog(logData) == [userInteraction |-> NoInteraction, engagementScore |-> 0] @@ logData

\* the collection after the writes of one call
WithLogs(stored, logged) ==
    IF Len(logged) = 0 THEN stored
    ELSE (logged[1].recId :> NewLog(logged[1])) @@ stored

EngineInit ==
    /\ selIn = NoSelIn
    /\ selOut = NotRun
    /\ rankIn = NoRankIn
    /\ rankOut = NotRanked
    /\ engineVersion \in {TwoPart, Hybrid}
    /\ StoresInit
    /\ RulesIdle
    /\ fnCall = NoFnCall

GenerateCall ==
    /\ last.seq < MaxCalls
    /\ \E userId \in UserIds, context \in EngineContexts, options \in EngineOptions,
          env \in EngineEnvs :
         LET out == generateRecommendations(engineVersion, nextId, userId, context,
                                            EngineProfile, options, env, DOMAIN recLogs)
         IN  /\ recLogs' = WithLogs(recLogs, out.logged)
             /\ nextId' = nextId + 2
             /\ last' = [seq |-> last.seq + 1, op |-> "generate", recId |-> nextId,
                         userId |-> userId, context |-> context, options |-> options,
                         env |-> env, stored |-> DOMAIN recLogs, result |-> out.result]
    /\ UNCHANGED <<engineVersion, playlists, spotify, songs, now, inFlight>>
    /\ UNCHANGED pureVars
    /\ UNCHANGED ruleVars
    /\ UNCHANGED fnCall

SpecEngine == EngineInit /\ [][GenerateCall]_vars

\* what the two branches yield for the inputs of the last call
LastUserBranch ==
    getRecommendationsFromUserPlaylists(last.env, last.context, EngineProfile,
                                        (TargetLengthOr20(last.options) * 4) \div 10)
LastGlobalBranch ==
    getGlobalRecommendations(last.env, last.context, EngineProfile,
        TargetLengthOr20(last.options) - (TargetLengthOr20(last.options) * 4) \div 10)

\* C2: when exactly one branch of generateTwoPartRecommendations fails or yields
\* no tracks while the other yields tracks, generateRecommendations does not
\* fail and returns the tracks of the branch that succeeded.
C2_OneBranchSuffices ==
    (last.op = "generate" /\ engineVersion = TwoPart /\ PreambleOk(last.env)) =>
        LET userHas   == Len(LastUserBranch.tracks) > 0
            globalHas == ~LastGlobalBranch.raised /\ Len(LastGlobalBranch.tracks) > 0
        IN  (userHas # globalHas) =>
                /\ last.result.status = "ok"
                /\ userHas => last.result.fromUserPlaylists = LastUserBranch
                /\ globalHas =>
                      last.result.fromGlobalRecommendations = LastGlobalBranch.tracks

SeqIds(tracks) == { tracks[k].id : k \in 1..Len(tracks) }

\* ids of the tracks the catalog and the user's playlists supplied during a call
SuppliedIds(env) ==
    SeqIds(env.recs.tracks) \cup SeqIds(env.search.tracks)
    \cup UNION { SeqIds(env.userPlaylists.lists[k].tracks) :
                   k \in 1..Len(env.userPlaylists.lists) }

ReturnedIds(result) ==
    SeqIds(result.fromUserPlaylists.tracks) \cup SeqIds(result.fromGlobalRecommendations)
    \cup SeqIds(result.recommendations)

\* C3: generateRecommendations returns only tracks obtained from the catalog or
\* from the user's playlists, and fails with the service-unavailable error when
\* no candidate track is available.
C3_NoFabricatedTracks ==
    last.op = "generate" =>
        /\ ReturnedIds(last.result) \subseteq SuppliedIds(last.env)
        /\ SuppliedIds(last.env) = {} =>
              /\ last.result.status = "error"
              /\ last.result.message = ServiceUnavailable

\* C4: after an invocation of generateRecommendations against a log store that
\* accepts schema-valid records, exactly one record with the invocation's recId
\* is in the store.
C4_ExactlyOneLogRecord ==
    (last.op = "generate" /\ last.env.logStoreOk) =>
        Cardinality({ r \in DOMAIN recLogs : recLogs[r].recId = last.recId }) = 1

\* the last call replayed against a log store in the given condition
ReplayWithLogStore(ok) ==
    generateRecommendations(engineVersion, last.recId, last.userId, last.context,
                            EngineProfile, last.options,
                            [last.env EXCEPT !.logStoreOk = ok], last.stored)

\* C5: the outcome of generateRecommendations (result or service error) is the
\* same whether the audit-log write fails or succeeds.
C5_LogFailureKeepsOutcome ==
    last.op = "generate" =>
        /\ last.result = ReplayWithLogStore(TRUE).result
        /\ last.result = ReplayWithLogStore(FALSE).result

\* C5 witness: a successful call whose log write failed although a working
\* store would have kept the record
C5_Witness ==
    /\ last.op = "generate"
    /\ ~last.env.logStoreOk
    /\ last.result.status = "ok"
    /\ last.result.recId = last.recId
    /\ Len(last.result.recommendations) > 0
    /\ last.recId \notin DOMAIN recLogs
    /\ Len(ReplayWithLogStore(TRUE).logged) = 1

(***************************************************************************)
(* PlaylistGenerator.  st is the state a handler runs against:             *)
(* [version, recLogs, playlists, spotify, songs, now, nextId].  Every      *)
(* operator returns the stores as the handler leaves them.  A playlist on  *)
(* Spotify is recorded with its owner, the context it was made for, the    *)
(* hour of its creation and whether the request was forced.                *)
(***************************************************************************)

\* options.idempotencyWindow || 2 * 60 * 60 * 1000, in hours
Window == 2

\* songId: null
NoSongId == 0

ContextKey(context) ==
    [timeOfDay |-> context.timeOfDay, weather |-> context.weather, city |-> context.city]

\* newest active playlist of the user for the same context inside the window
findRecentSimilarPlaylist(store, userId, context, timeWindow, clock) ==
    LET hits == { p \in store : /\ p.createdBy = userId
                                /\ p.createdAt >= clock - timeWindow
                                /\ p.context = ContextKey(context)
                                /\ p.isActive }
    IN  IF hits = {} THEN [found |-> FALSE]
        ELSE [found |-> TRUE,
              doc |-> CHOOSE p \in hits : \A q \in hits : q.createdAt <= p.createdAt]

\* [raised, isExisting, id, created]: created holds the playlist made on Spotify,
\* which stays there when a later step of the function throws
createSpotifyPlaylist(userId, recommendations, context, options, env, st) ==
    LET existing == IF options.forceCreate THEN [found |-> FALSE]
                    ELSE findRecentSimilarPlaylist(st.playlists, userId, context,
                                                   Window, st.now)
        playlist == [id |-> st.nextId + 2, owner |-> userId, key |-> ContextKey(context),
                     createdAt |-> st.now, forced |-> options.forceCreate]
        HasTrackUri(t) == t.uri
        trackUris == SelectSeq(recommendations, HasTrackUri)
    IN  IF ~env.tokenOk
        THEN [raised |-> TRUE, isExisting |-> FALSE, id |-> 0, created |-> {}]
        ELSE IF existing.found
        THEN [raised |-> FALSE, isExisting |-> TRUE, id |-> existing.doc.spotifyPlaylistId,
              created |-> {}]
        ELSE IF ~env.spotifyOk
        THEN [raised |-> TRUE, isExisting |-> FALSE, id |-> 0, created |-> {}]
        ELSE IF Len(trackUris) = 0
        THEN [raised |-> TRUE, isExisting |-> FALSE, id |-> 0, created |-> {playlist}]
        ELSE [raised |-> FALSE, isExisting |-> FALSE, id |-> playlist.id,
              created |-> {playlist}]

\* mutant: track entries that carry the id of their Song document
formatTracksWithSongIds(recommendations) ==
    [k \in 1..Len(recommendations) |->
        [songId |-> recommendations[k].id, spotifyTrackId |-> recommendations[k].id,
         position |-> k - 1]]

formatTracksForDatabase(recommendations) ==
    [k \in 1..Len(recommendations) |->
        [songId |-> NoSongId, spotifyTrackId |-> recommendations[k].id, position |-> k - 1]]

\* playlistSchema: tracks[].songId is required, spotifyPlaylistId is unique
PlaylistSchemaValid(doc, store) ==
    /\ \A k \in 1..Len(doc.tracks) : doc.tracks[k].songId # NoSongId
    /\ \A p \in store : p.spotifyPlaylistId # doc.spotifyPlaylistId

\* Song.findOneAndUpdate(..., {upsert: true}) for every track
saveRecommendedSongs(recommendations, songStore) ==
    songStore \cup { recommendations[k].id : k \in 1..Len(recommendations) }

\* [raised, playlists, songs]
savePlaylistToDatabase(userId, playlistResult, recommendations, context, st) ==
    LET playlistDoc == [playlistId |-> st.nextId + 3,
                        spotifyPlaylistId |-> playlistResult.id,
                        createdBy |-> userId, context |-> ContextKey(context),
                        tracks |-> formatTracksForDatabase(recommendations),
                        createdAt |-> st.now, isActive |-> TRUE]
    IN  IF PlaylistSchemaValid(playlistDoc, st.playlists)
        THEN [raised |-> FALSE, playlists |-> st.playlists \cup {playlistDoc},
              songs |-> saveRecommendedSongs(recommendations, st.songs)]
        ELSE [raised |-> TRUE, playlists |-> st.playlists, songs |-> st.songs]

\* RecommendationLog.findOneAndUpdate({recId}, {'userInteraction.created': true, ...})
updateRecommendationLog(recId, logs) ==
    IF recId \in DOMAIN logs
    THEN [logs EXCEPT ![recId].userInteraction.created = TRUE]
    ELSE logs

\* the options the generator hands to the engine
EngineOptionsOf(options) ==
    [targetLength |-> IF options.targetLength = 0 THEN 20 ELSE options.targetLength,
     diversityWeight |-> options.diversityWeight, hasWeight |-> TRUE]

Outcome(success, st, logs, created, store, songStore, out) ==
    [success |-> success, recLogs |-> logs, playlists |-> store,
     spotify |-> st.spotify \cup created, songs |-> songStore,
     recId |-> out.result.recId, logged |-> out.logged]

NoEngineCall(st) == [result |-> [recId |-> 0], logged |-> <<>>]

\* the engine call both handlers make, with the options they pass
EngineCall(userId, context, options, env, st) ==
    generateRecommendations(st.version, st.nextId, userId, context, EngineProfile,
                            EngineOptionsOf(options), env, DOMAIN st.recLogs)

\* generateAndCreatePlaylist after savePlaylistToDatabase answered
AfterSave(st, out, playlistResult, saved) ==
    IF saved.raised
    THEN Outcome(FALSE, st, WithLogs(st.recLogs, out.logged), playlistResult.created,
                 st.playlists, st.songs, out)
    ELSE Outcome(TRUE, st,
                 updateRecommendationLog(out.result.recId, WithLogs(st.recLogs, out.logged)),
                 playlistResult.created, saved.playlists, saved.songs, out)

\* generateAndCreatePlaylist after createSpotifyPlaylist answered
AfterSpotify(userId, context, st, out, playlistResult) ==
    IF playlistResult.raised
    THEN Outcome(FALSE, st, WithLogs(st.recLogs, out.logged), playlistResult.created,
                 st.playlists, st.songs, out)
    ELSE AfterSave(st, out, playlistResult,
                   savePlaylistToDatabase(userId, playlistResult,
                                          out.result.recommendations, context, st))

\* generateAndCreatePlaylist after generateRecommendations answered: a thrown
\* error, a result without recommendations or an empty list ends in the catch
AfterEngine(userId, context, options, env, st, out) ==
    IF \/ out.result.status = "error"
       \/ ~out.result.hasRecommendations
       \/ Len(out.result.recommendations) = 0
    THEN Outcome(FALSE, st, WithLogs(st.recLogs, out.logged), {}, st.playlists,
                 st.songs, out)
    ELSE AfterSpotify(userId, context, st, out,
                      createSpotifyPlaylist(userId, out.result.recommendations, context,
                                            options, env, st))

generateAndCreatePlaylist(userId, context, options, env, st) ==
    IF ~env.userFound
    THEN Outcome(FALSE, st, st.recLogs, {}, st.playlists, st.songs, NoEngineCall(st))
    ELSE AfterEngine(userId, context, options, env, st,
                     EngineCall(userId, context, options, env, st))

\* previewRecommendations after generateRecommendations answered
PreviewOf(st, out) ==
    Outcome(out.result.status # "error" /\ out.result.hasRecommendations, st,
            WithLogs(st.recLogs, out.logged), {}, st.playlists, st.songs, out)

\* mutant: a preview that goes on to create the playlist
previewRecommendationsCreating(userId, context, options, env, st) ==
    generateAndCreatePlaylist(userId, context, options, env, st)

previewRecommendations(userId, context, options, env, st) ==
    IF ~env.userFound
    THEN Outcome(FALSE, st, st.recLogs, {}, st.playlists, st.songs, NoEngineCall(st))
    ELSE PreviewOf(st, EngineCall(userId, context, options, env, st))

(***************************************************************************)
(* RecommendationLog methods and the feedback route                        *)
(***************************************************************************)
recordClick(rec) == [rec EXCEPT !.userInteraction.clicked = TRUE]
recordOpen(rec) == [rec EXCEPT !.userInteraction.opened = TRUE]
recordPlay(rec) == [rec EXCEPT !.userInteraction.played = TRUE]
recordSave(rec) == [rec EXCEPT !.userInteraction.saved = TRUE]
recordRating(rec, rating) == [rec EXCEPT !.userInteraction.rating = rating]

\* completionRate in percent
updatePlayStats(rec, tracksPlayed) ==
    [rec EXCEPT !.userInteraction.tracksPlayed = tracksPlayed,
                !.userInteraction.completionRate =
                    IF rec.totalTracks > 0 THEN (tracksPlayed * 100) \div rec.totalTracks
                    ELSE @]

\* engagement score in hundredths
calculateEngagementScore(rec) ==
    LET ui == rec.userInteraction
    IN  [rec EXCEPT !.engagementScore =
            100 * ((IF ui.clicked THEN 1 ELSE 0) + (IF ui.opened THEN 2 ELSE 0)
                   + (IF ui.played THEN 3 ELSE 0) + (IF ui.saved THEN 5 ELSE 0)
                   + (IF ui.shared THEN 4 ELSE 0) + ui.rating)
            + 2 * ui.completionRate]

\* request bodies: rating 0 and tracksPlayed 0 stand for absent fields
FeedbackBodies ==
    { [action |-> a, rating |-> 0, hasTrackData |-> FALSE, tracksPlayed |-> 0] :
        a \in {"", "click", "open", "play", "save", "share", "session_update"} }
    \cup { [action |-> "rate", rating |-> r, hasTrackData |-> FALSE, tracksPlayed |-> 0] :
             r \in {4, 6} }
    \cup { [action |-> "session_update", rating |-> 0, hasTrackData |-> TRUE,
            tracksPlayed |-> 1] }

\* the switch of the route: [updated, rec]
ApplyFeedback(rec, body) ==
    CASE body.action = "click" -> [updated |-> TRUE, rec |-> recordClick(rec)]
      [] body.action = "open" -> [updated |-> TRUE, rec |-> recordOpen(rec)]
      [] body.action = "play" -> [updated |-> TRUE, rec |-> recordPlay(rec)]
      [] body.action = "save" -> [updated |-> TRUE, rec |-> recordSave(rec)]
      [] body.action = "rate" /\ body.rating >= 1 /\ body.rating <= 5 ->
            [updated |-> TRUE, rec |-> recordRating(rec, body.rating)]
      [] body.action = "session_update" /\ body.hasTrackData ->
            [updated |-> TRUE, rec |-> updatePlayStats(rec, body.tracksPlayed)]
      [] OTHER -> [updated |-> FALSE, rec |-> rec]

\* POST /:recId/feedback: [status, recLogs]
PostFeedback(recId, userId, body, logs) ==
    IF body.action = "" THEN [status |-> 400, recLogs |-> logs]
    ELSE IF ~(recId \in DOMAIN logs /\ logs[recId].userId = userId)
    THEN [status |-> 404, recLogs |-> logs]
    ELSE LET applied == ApplyFeedback(logs[recId], body)
         IN  IF applied.updated
             THEN [status |-> 200,
                   recLogs |-> [logs EXCEPT ![recId] = calculateEngagementScore(applied.rec)]]
             ELSE [status |-> 400, recLogs |-> logs]

(***************************************************************************)
(* The routes: POST /create, POST /preview, POST /:recId/feedback          *)
(***************************************************************************)
MaxRequests == 2
MaxTime == 2

\* Math.min(Math.max(targetLength, 10), 50), with the default 20 of the route
ClampTargetLength(targetLength) ==
    Min2(Max2(IF targetLength = 0 THEN 20 ELSE targetLength, 10), 50)

\* the options object the routes build from the request body
RouteOptions(body) ==
    [targetLength |-> ClampTargetLength(body.targetLength), diversityWeight |-> 3,
     forceCreate |-> body.forceCreate]

CreateBodies == { [targetLength |-> 0, forceCreate |-> f] : f \in BOOLEAN }
PreviewBodies == { [targetLength |-> t, forceCreate |-> FALSE] : t \in {0, 5} }

\* collaborator answers during one request; a request that finds no user or
\* no valid token asks nothing else
RouteEnvs ==
    { r \in { [spotifyOk |-> sp] @@ env : sp \in BOOLEAN, env \in Envs } :
        /\ r.userFound \/ r.tokenOk
        /\ r.search.ok
        /\ r.userPlaylists.ok /\ Len(r.userPlaylists.lists) > 0
        /\ r.recs # [ok |-> TRUE, tracks |-> <<>>]
        /\ Len(r.candidates.genres) > 0
        /\ ~PreambleOk(r) => (~r.recs.ok /\ r.logStoreOk /\ ~r.spotifyOk) }

RouteUsers == {"u1", "u2"}

RoutesInit ==
    /\ selIn = NoSelIn
    /\ selOut = NotRun
    /\ rankIn = NoRankIn
    /\ rankOut = NotRanked
    /\ engineVersion \in {TwoPart, Hybrid}
    /\ StoresInit
    /\ RulesIdle
    /\ fnCall = NoFnCall

Stores ==
    [version |-> engineVersion, recLogs |-> recLogs, playlists |-> playlists,
     spotify |-> spotify, songs |-> songs, now |-> now, nextId |-> nextId]

Commit(op, userId, out) ==
    /\ recLogs' = out.recLogs
    /\ playlists' = out.playlists
    /\ spotify' = out.spotify
    /\ songs' = out.songs
    /\ nextId' = nextId + 4
    /\ last' = [seq |-> last.seq + 1, op |-> op, userId |-> userId,
                success |-> out.success, recId |-> out.recId, logged |-> out.logged]
    /\ UNCHANGED <<engineVersion, now, inFlight>>
    /\ UNCHANGED pureVars
    /\ UNCHANGED ruleVars
    /\ UNCHANGED fnCall

CreatePlaylist ==
    /\ last.seq < MaxRequests
    /\ \E userId \in UserIds, context \in EngineContexts, body \in CreateBodies,
          env \in RouteEnvs :
         Commit("create", userId,
                generateAndCreatePlaylist(userId, context, RouteOptions(body), env, Stores))

PreviewCall ==
    /\ last.seq < MaxRequests
    /\ \E userId \in UserIds, context \in EngineContexts, body \in PreviewBodies,
          env \in RouteEnvs :
         Commit("preview", userId,
                previewRecommendations(userId, context, RouteOptions(body), env, Stores))

FeedbackCall ==
    /\ last.seq < MaxRequests
    /\ \E recId \in DOMAIN recLogs \cup {0}, userId \in RouteUsers, body \in FeedbackBodies :
         LET out == PostFeedback(recId, userId, body, recLogs)
         IN  /\ recLogs' = out.recLogs
             /\ last' = [seq |-> last.seq + 1, op |-> "feedback", userId |-> userId,
                         success |-> out.status = 200, recId |-> recId, logged |-> <<>>]
    /\ UNCHANGED <<engineVersion, playlists, spotify, songs, now, nextId, inFlight>>
    /\ UNCHANGED pureVars
    /\ UNCHANGED ruleVars
    /\ UNCHANGED fnCall

Tick ==
    /\ now < MaxTime
    /\ now' = now + 1
    /\ UNCHANGED <<engineVersion, recLogs, playlists, spotify, songs, nextId, last,
                   inFlight>>
    /\ UNCHANGED pureVars
    /\ UNCHANGED ruleVars
    /\ UNCHANGED fnCall

Next == CreatePlaylist \/ PreviewCall \/ FeedbackCall \/ Tick

Spec == RoutesInit /\ [][Next]_vars

\* C6: unforced create requests of one user for one context (same time of day,
\* weather and city) inside the idempotency window leave one playlist on
\* Spotify, not two: the later request returns the existing playlist.
C6_OnePlaylistPerWindow ==
    \A p, q \in spotify :
        (/\ p.owner = q.owner
         /\ p.key = q.key
         /\ ~p.forced /\ ~q.forced
         /\ p.createdAt <= q.createdAt
         /\ q.createdAt - p.createdAt <= Window) => p = q

\* C7: a preview request creates no Spotify playlist and writes no Playlist or
\* Song record, whatever its input and outcome.
C7_PreviewWritesNoPlaylist ==
    [][(last'.seq # last.seq /\ last'.op = "preview")
          => UNCHANGED <<playlists, spotify, songs>>]_vars

\* C7 witness: a successful preview served while a playlist exists on Spotify
C7_Witness ==
    /\ last.op = "preview"
    /\ last.success
    /\ spotify # {}

WeightTen == 10
MatchOne == 1000
PerCent == 100

\* a context field that is undefined
Absent == "absent"

\* RecommendationRule.matches
matches(rule, context) ==
    LET conditions == rule.conditions
        temp == context.temperature
    IN  /\ (conditions.timeOfDay # {} => context.timeOfDay \in conditions.timeOfDay)
        /\ (conditions.weather # {} => context.condition \in conditions.weather)
        /\ (temp # 0 =>
               /\ ~(conditions.tempMin # 0 /\ temp < conditions.tempMin)
               /\ ~(conditions.tempMax # 0 /\ temp > conditions.tempMax))
        /\ (conditions.countries # {} => context.country \in conditions.countries)
        /\ (conditions.cities # {} => context.city \in conditions.cities)
        /\ (conditions.season # {} => context.season \in conditions.season)
        /\ (conditions.mood # {} /\ context.mood # Absent
               => context.mood \in conditions.mood)
        /\ (conditions.activity # {} /\ context.activity # Absent
               => context.activity \in conditions.activity)

\* RecommendationRule.getMatchScore, in thousandths
getMatchScore(rule, context) ==
    IF ~matches(rule, context) THEN 0
    ELSE LET boosted ==
                 rule.priority * WeightTen
               + (IF context.timeOfDay \in rule.conditions.timeOfDay THEN 5 ELSE 0)
               + (IF context.condition \in rule.conditions.weather THEN 5 ELSE 0)
               + (IF context.mood \in rule.conditions.mood THEN 3 ELSE 0)
         IN  boosted * (PerCent + rule.successRate)

\* the order of find({isActive: true}).sort({priority: -1, successRate: -1})
FindActiveSorted(store) ==
    LET active == SelectSeq(store, LAMBDA rule : rule.isActive)
        keyed == [k \in 1..Len(active) |->
                    [rule |-> active[k],
                     score |-> active[k].priority * MatchOne + active[k].successRate]]
        sorted == SortByScoreDesc(keyed)
    IN  [k \in 1..Len(sorted) |-> sorted[k].rule]

\* RecommendationRule.findMatchingRules
findMatchingRules(store, context, limit) ==
    LET rules == Slice0(FindActiveSorted(store), limit * 2)
        scored == [k \in 1..Len(rules) |->
                     [rule |-> rules[k], score |-> getMatchScore(rules[k], context)]]
        positive == SelectSeq(scored, LAMBDA item : item.score > 0)
        scoredRules == Slice0(SortByScoreDesc(positive), limit)
    IN  [k \in 1..Len(scoredRules) |-> scoredRules[k].rule]

\* Math.round(t / 5) * 5
RoundTo5(t) == ((2 * t + 5) \div 10) * 5

\* RuleEngine.getContextFingerprint: the parts that are joined
getContextFingerprint(context) ==
    << context.timeOfDay,
       context.condition,
       RoundTo5(IF context.temperature = 0 THEN 20 ELSE context.temperature),
       context.city,
       context.season >>

DefaultLimit == 10

\* RuleEngine.getMatchingRules: the rules returned and the cache afterwards;
\* dbOk is false when RecommendationRule.findMatchingRules rejects
getMatchingRules(context, store, cache, dbOk) ==
    LET cacheKey == getContextFingerprint(context)
        hits == { e \in cache : e.key = cacheKey }
    IN  IF hits # {}
        THEN [rules |-> (CHOOSE e \in hits : TRUE).rules, cache |-> cache, hit |-> TRUE]
        ELSE IF dbOk
        THEN LET matchingRules == findMatchingRules(store, context, DefaultLimit)
             IN  [rules |-> matchingRules,
                  cache |-> cache \cup {[key |-> cacheKey, rules |-> matchingRules]},
                  hit |-> FALSE]
        ELSE [rules |-> <<>>, cache |-> cache, hit |-> FALSE]

\* Map.set(name, (Map.get(name) || 0) + amount) on a Map kept in insertion order
RECURSIVE MapAdd(_, _, _)
MapAdd(map, name, amount) ==
    IF map = <<>> THEN << [name |-> name, weight |-> amount] >>
    ELSE IF Head(map).name = name
         THEN << [name |-> name, weight |-> Head(map).weight + amount] >> \o Tail(map)
         ELSE << Head(map) >> \o MapAdd(Tail(map), name, amount)

\* the inner loop over one rule's themes or genres
RECURSIVE FoldItems(_, _, _)
FoldItems(map, items, weight) ==
    IF items = <<>> THEN map
    ELSE FoldItems(MapAdd(map, Head(items).name, Head(items).weight * weight),
                   Tail(items), weight)

\* contribution weight of one rule: priority * getMatchScore, in thousandths
ContributionWeight(rule, context) == rule.priority * getMatchScore(rule, context)

\* totalWeight after the loop over the rules
RECURSIVE TotalWeight(_, _)
TotalWeight(rules, context) ==
    IF rules = <<>> THEN 0
    ELSE ContributionWeight(Head(rules), context) + TotalWeight(Tail(rules), context)

\* combined.themes after the loop over the rules
RECURSIVE CombineThemes(_, _, _)
CombineThemes(map, rules, context) ==
    IF rules = <<>> THEN map
    ELSE CombineThemes(FoldItems(map, Head(rules).themes,
                                 ContributionWeight(Head(rules), context)),
                       Tail(rules), context)

\* combined.genres after the loop over the rules
RECURSIVE CombineGenres(_, _, _)
CombineGenres(map, rules, context) ==
    IF rules = <<>> THEN map
    ELSE CombineGenres(FoldItems(map, Head(rules).genres,
                                 ContributionWeight(Head(rules), context)),
                       Tail(rules), context)

\* RuleEngine.normalizeWeights: dividing every weight by totalWeight is
\* changing the denominator the weights are read over
normalizeWeights(combined, totalWeight) ==
    IF totalWeight = 0 THEN combined
    ELSE [combined EXCEPT !.weightOne = WeightTen * totalWeight]

RECURSIVE InsertByWeight(_, _)
InsertByWeight(sorted, item) ==
    IF sorted = <<>> THEN <<item>>
    ELSE IF Head(sorted).weight >= item.weight
         THEN <<Head(sorted)>> \o InsertByWeight(Tail(sorted), item)
         ELSE <<item>> \o sorted

\* Array.prototype.sort((a, b) => b.weight - a.weight)
RECURSIVE SortByWeightDesc(_)
SortByWeightDesc(s) ==
    IF s = <<>> THEN <<>>
    ELSE InsertByWeight(SortByWeightDesc(SubSeq(s, 1, Len(s) - 1)), s[Len(s)])

\* RuleEngine.formatCandidates
\* audio features: min, max and target in thousandths, weight in halves; a
\* target is kept as the exact fraction num / den
FeatureHalf == 2

\* the entry combineAudioFeatures creates for a feature it sees first:
\* { min: 0, max: 1, target: 0.5, weight: 0 }
InitialFeature ==
    [min |-> 0, max |-> PerMille, target |-> [num |-> 1, den |-> 2], weight |-> 0]

\* a division by a total weight of 0, and every target computed from it
NotANumber == [num |-> 0, den |-> 0]

\* sourceFeature.weight || 1
FeatureWeightOr1(sourceFeature) ==
    IF sourceFeature.weight = 0 THEN FeatureHalf ELSE sourceFeature.weight

\* targetFeature.target * targetFeature.weight: 0 while the weight is 0, and
\* the numerator afterwards, the denominator being the accumulated weight
TargetTimesWeight(targetFeature) ==
    IF targetFeature.weight = 0 THEN 0
    ELSE (targetFeature.target.num * targetFeature.weight) \div targetFeature.target.den

\* the body of the loop of combineAudioFeatures for one feature
combineFeature(targetFeature, sourceFeature, weight) ==
    LET totalWeight == targetFeature.weight + FeatureWeightOr1(sourceFeature) * weight
    IN  [min |-> Max2(targetFeature.min, sourceFeature.min),
         max |-> Min2(targetFeature.max, sourceFeature.max),
         target |-> IF totalWeight = 0 \/ targetFeature.target = NotANumber
                    THEN NotANumber
                    ELSE [num |-> TargetTimesWeight(targetFeature)
                                    + sourceFeature.target
                                        * FeatureWeightOr1(sourceFeature) * weight,
                          den |-> totalWeight],
         weight |-> totalWeight]

\* RuleEngine.combineAudioFeatures: target after one rule's features came in
combineAudioFeatures(target, source, weight) ==
    [f \in DOMAIN target \cup DOMAIN source |->
        IF f \in DOMAIN source
        THEN combineFeature(IF f \in DOMAIN target THEN target[f] ELSE InitialFeature,
                            source[f], weight)
        ELSE target[f]]

NoFeatures == [f \in {} |-> InitialFeature]

RECURSIVE CombineFeatures(_, _, _)
CombineFeatures(acc, rules, context) ==
    IF rules = <<>> THEN acc
    ELSE CombineFeatures(combineAudioFeatures(acc, Head(rules).audioFeatures,
                                              ContributionWeight(Head(rules), context)),
                         Tail(rules), context)

formatCandidates(combined, context) ==
    [themes |-> SortByWeightDesc(combined.themes),
     genres |-> SortByWeightDesc(combined.genres),
     weightOne |-> combined.weightOne,
     audioFeatures |-> combined.audioFeatures,
     contextTags |-> combined.contextTags,
     moodTags |-> combined.moodTags,
     contextFingerprint |-> getContextFingerprint(context)]

\* RuleEngine.combineRuleRecommendations
combineRuleRecommendations(rules, context) ==
    LET combined ==
            [themes |-> CombineThemes(<<>>, rules, context),
             genres |-> CombineGenres(<<>>, rules, context),
             weightOne |-> WeightTen * MatchOne,
             audioFeatures |-> CombineFeatures(NoFeatures, rules, context),
             contextTags |-> UNION { rules[k].contextTags : k \in 1..Len(rules) },
             moodTags |-> UNION { rules[k].moodTags : k \in 1..Len(rules) }]
    IN  formatCandidates(normalizeWeights(combined, TotalWeight(rules, context)),
                         context)

\* RuleEngine.getFallbackGenres
getFallbackGenres(context) ==
    IF context.timeOfDay = "morning" THEN <<"pop", "indie", "electronic">>
    ELSE IF context.timeOfDay \in {"evening", "night"}
         THEN IF context.condition = "rainy" THEN <<"jazz", "acoustic", "r&b">>
              ELSE <<"alternative", "indie", "electronic">>
    ELSE IF context.condition = "sunny" THEN <<"pop", "indie", "reggae">>
    ELSE <<"pop", "indie", "alternative">>

\* mutant: the weather adjustment is skipped once the time of day has set
\* the targets
defaultFeaturesTimeOnly(context) ==
    LET t == IF context.timeOfDay = "morning" THEN [energy |-> 700, valence |-> 700]
             ELSE IF context.timeOfDay = "night" THEN [energy |-> 300, valence |-> 400]
             ELSE IF context.condition = "rainy" THEN [energy |-> 300, valence |-> 300]
             ELSE IF context.condition = "sunny" THEN [energy |-> 700, valence |-> 800]
             ELSE [energy |-> 500, valence |-> 500]
    IN  [valence |-> [min |-> 300, max |-> 800,
                      target |-> [num |-> t.valence, den |-> PerMille],
                      weight |-> FeatureHalf],
         energy |-> [min |-> 300, max |-> 800,
                     target |-> [num |-> t.energy, den |-> PerMille],
                     weight |-> FeatureHalf],
         danceability |-> [min |-> 200, max |-> 800,
                           target |-> [num |-> 500, den |-> PerMille],
                           weight |-> 1]]

\* RuleEngine.getDefaultAudioFeatures: the time-of-day adjustment first, the
\* weather adjustment over it
getDefaultAudioFeatures(context) ==
    LET byTime == IF context.timeOfDay = "morning" THEN [energy |-> 700, valence |-> 700]
                  ELSE IF context.timeOfDay = "night" THEN [energy |-> 300, valence |-> 400]
                  ELSE [energy |-> 500, valence |-> 500]
        byWeather == IF context.condition = "rainy" THEN [energy |-> 300, valence |-> 300]
                     ELSE IF context.condition = "sunny" THEN [energy |-> 700, valence |-> 800]
                     ELSE byTime
    IN  [valence |-> [min |-> 300, max |-> 800,
                      target |-> [num |-> byWeather.valence, den |-> PerMille],
                      weight |-> FeatureHalf],
         energy |-> [min |-> 300, max |-> 800,
                     target |-> [num |-> byWeather.energy, den |-> PerMille],
                     weight |-> FeatureHalf],
         danceability |-> [min |-> 200, max |-> 800,
                           target |-> [num |-> 500, den |-> PerMille],
                           weight |-> 1]]

FallbackRuleId == "fallback"

\* RuleEngine.getFallbackCandidates: every genre weighs 1 / fallbackGenres.length
getFallbackCandidates(context) ==
    LET fallbackGenres == getFallbackGenres(context)
    IN  [candidates |->
            [themes |-> << [name |-> "general", weight |-> Len(fallbackGenres)] >>,
             genres |-> [k \in 1..Len(fallbackGenres) |->
                           [name |-> fallbackGenres[k], weight |-> 1]],
             weightOne |-> Len(fallbackGenres),
             audioFeatures |-> getDefaultAudioFeatures(context),
             contextTags |-> {context.timeOfDay, context.condition} \ {Absent},
             moodTags |-> {"general"},
             contextFingerprint |-> getContextFingerprint(context)],
         appliedRules |-> << [ruleId |-> FallbackRuleId, weight |-> MatchOne,
                              matchScore |-> MatchOne \div 2] >>]

\* the body of getCandidates once getMatchingRules has answered
CandidatesFrom(matchingRules, context) ==
    IF Len(matchingRules) = 0 THEN getFallbackCandidates(context)
    ELSE [candidates |-> combineRuleRecommendations(matchingRules, context),
          appliedRules |-> [k \in 1..Len(matchingRules) |->
                              [ruleId |-> matchingRules[k].ruleId,
                               weight |-> matchingRules[k].priority * MatchOne,
                               matchScore |-> getMatchScore(matchingRules[k], context)]]]

\* RuleEngine.getCandidates: what it returns, the rules it worked from and the
\* cache afterwards
getCandidates(context, store, cache, dbOk) ==
    LET found == getMatchingRules(context, store, cache, dbOk)
    IN  [result |-> CandidatesFrom(found.rules, context),
         matched |-> found.rules,
         hit |-> found.hit,
         cache |-> found.cache]

(***************************************************************************)
(* Rule engine under a fixed rule store                                    *)
(***************************************************************************)

NoConditions ==
    [timeOfDay |-> {}, weather |-> {}, tempMin |-> 0, tempMax |-> 0,
     countries |-> {}, cities |-> {}, season |-> {}, mood |-> {}, activity |-> {}]

\* the two rules of RecommendationRule.createDefaultRules
MorningSunnyEnergetic ==
    [ruleId |-> "morning_sunny_energetic", priority |-> 8, successRate |-> 0,
     isActive |-> TRUE,
     conditions |-> [NoConditions EXCEPT !.timeOfDay = {"morning"},
                                         !.weather = {"sunny", "partly_cloudy"},
                                         !.tempMin = 15, !.tempMax = 35],
     themes |-> << [name |-> "energetic_start", weight |-> 30],
                   [name |-> "uplifting_pop", weight |-> 25] >>,
     genres |-> << [name |-> "pop", weight |-> 25],
                   [name |-> "indie_rock", weight |-> 20],
                   [name |-> "electronic", weight |-> 15] >>,
     audioFeatures |->
         [energy |-> [min |-> 600, max |-> 1000, target |-> 800, weight |-> 4],
          valence |-> [min |-> 500, max |-> 1000, target |-> 700, weight |-> 3],
          danceability |-> [min |-> 400, max |-> 1000, target |-> 600, weight |-> 2]],
     moodTags |-> {"happy", "energetic", "uplifting"},
     contextTags |-> {"morning", "sunny", "energetic"}]

EveningRainyChill ==
    [ruleId |-> "evening_rainy_chill", priority |-> 9, successRate |-> 0,
     isActive |-> TRUE,
     conditions |-> [NoConditions EXCEPT !.timeOfDay = {"evening", "night"},
                                         !.weather = {"rainy", "stormy", "cloudy"}],
     themes |-> << [name |-> "rainy_night_lofi", weight |-> 30],
                   [name |-> "acoustic_chill", weight |-> 25] >>,
     genres |-> << [name |-> "lofi", weight |-> 30],
                   [name |-> "acoustic", weight |-> 25],
                   [name |-> "jazz", weight |-> 20],
                   [name |-> "r&b", weight |-> 15] >>,
     audioFeatures |->
         [energy |-> [min |-> 100, max |-> 500, target |-> 300, weight |-> 4],
          valence |-> [min |-> 200, max |-> 700, target |-> 400, weight |-> 2],
          acousticness |-> [min |-> 500, max |-> 1000, target |-> 800, weight |-> 3]],
     moodTags |-> {"chill", "relaxing", "melancholic", "peaceful"},
     contextTags |-> {"evening", "night", "rainy", "chill"}]

\* a stored rule with a mood condition, one theme of weight 1.0 and one genre
\* of weight w
MoodRule(w) ==
    [ruleId |-> "happy_pop", priority |-> 5, successRate |-> 50,
     isActive |-> TRUE,
     conditions |-> [NoConditions EXCEPT !.mood = {"happy"}],
     themes |-> << [name |-> "feel_good", weight |-> WeightTen] >>,
     genres |-> << [name |-> "pop", weight |-> w] >>,
     audioFeatures |-> NoFeatures,
     moodTags |-> {"happy"},
     contextTags |-> {}]

\* genre weights of the schema's range: 0, the default 1.0, the maximum 10
GenreWeightLevels == {0, WeightTen, 10 * WeightTen}

RuleStores ==
    { <<>>, <<MorningSunnyEnergetic, EveningRainyChill>> }
    \cup { <<MorningSunnyEnergetic, EveningRainyChill, MoodRule(w)>> :
             w \in GenreWeightLevels }

RuleContexts ==
    [timeOfDay : {"morning"},
     condition : {"sunny", "rainy"},
     temperature : {13, 15},
     city : {"Jakarta"},
     country : {"ID"},
     season : {"summer"},
     mood : {Absent, "happy", "sad"},
     activity : {Absent}]

RuleInit ==
    /\ ruleStore \in RuleStores
    /\ ruleCache = {}
    /\ ruleLast = NoRuleCall
    /\ fnCall = NoFnCall
    /\ selIn = NoSelIn
    /\ selOut = NotRun
    /\ rankIn = NoRankIn
    /\ rankOut = NotRanked
    /\ engineVersion = TwoPart
    /\ StoresInit

GetCandidatesCall ==
    /\ \E context \in RuleContexts, dbOk \in BOOLEAN :
         LET out == getCandidates(context, ruleStore, ruleCache, dbOk)
         IN  /\ ruleCache' = out.cache
             /\ ruleLast' = [op |-> "getCandidates", context |-> context,
                             dbOk |-> dbOk, hit |-> out.hit,
                             matched |-> out.matched, result |-> out.result]
    /\ UNCHANGED <<ruleStore, fnCall>>
    /\ UNCHANGED pureVars
    /\ UNCHANGED storeVars

\* an entry of the cache reaches its time to live
CacheExpire ==
    /\ \E e \in ruleCache : ruleCache' = ruleCache \ {e}
    /\ UNCHANGED <<ruleStore, ruleLast, fnCall>>
    /\ UNCHANGED pureVars
    /\ UNCHANGED storeVars

SpecRules == RuleInit /\ [][GetCandidatesCall \/ CacheExpire]_vars

RECURSIVE SumWeights(_)
SumWeights(items) ==
    IF items = <<>> THEN 0 ELSE Head(items).weight + SumWeights(Tail(items))

LastCombined ==
    /\ ruleLast.op = "getCandidates"
    /\ Len(ruleLast.matched) > 0

\* C11: whenever combineRuleRecommendations is applied to a non-empty list of
\* matched rules whose total contribution weight is positive, the genre
\* weights of the result sum to 1.0 and so do its theme weights.
C11_WeightsSumToOne ==
    LastCombined /\ TotalWeight(ruleLast.matched, ruleLast.context) > 0
        => /\ SumWeights(ruleLast.result.candidates.genres)
                = ruleLast.result.candidates.weightOne
           /\ SumWeights(ruleLast.result.candidates.themes)
                = ruleLast.result.candidates.weightOne

\* C12: for a fixed rule store, the rules a getMatchingRules call returns for a
\* context are the rules RecommendationRule.findMatchingRules computes for
\* that context, whether they come from the cache or from the store.
C12_CacheMatchesLookup ==
    ruleLast.op = "getCandidates" /\ (ruleLast.hit \/ ruleLast.dbOk)
        => ruleLast.matched
             = findMatchingRules(ruleStore, ruleLast.context, DefaultLimit)

\* the last call was made with a context that matches no stored rule, or its
\* rule lookup failed
LastNoMatch ==
    /\ ruleLast.op = "getCandidates"
    /\ \/ findMatchingRules(ruleStore, ruleLast.context, DefaultLimit) = <<>>
       \/ (~ruleLast.hit /\ ~ruleLast.dbOk)

EqualWeights(items) == \A a, b \in 1..Len(items) : items[a].weight = items[b].weight

\* C13: a getCandidates call whose context matches no stored rule, or whose
\* rule lookup fails, returns exactly one applied rule, the synthetic
\* 'fallback' one with weight 1.0 and matchScore 0.5, and a non-empty genre
\* list of equal weights that sum to 1.
C13_FallbackOnNoMatch ==
    LastNoMatch
        => /\ ruleLast.result.appliedRules
                = << [ruleId |-> FallbackRuleId, weight |-> MatchOne,
                      matchScore |-> MatchOne \div 2] >>
           /\ Len(ruleLast.result.candidates.genres) > 0
           /\ EqualWeights(ruleLast.result.candidates.genres)
           /\ SumWeights(ruleLast.result.candidates.genres)
                = ruleLast.result.candidates.weightOne

\* C20: in every getCandidates call, each rule that combineRuleRecommendations
\* folds in has a positive match score for the context of that call, so the
\* total contribution weight is positive and normalizeWeights divides.
C20_FoldedRulesScorePositive ==
    LastCombined
        => /\ \A k \in 1..Len(ruleLast.matched) :
                 getMatchScore(ruleLast.matched[k], ruleLast.context) > 0
           /\ TotalWeight(ruleLast.matched, ruleLast.context) > 0

(***************************************************************************)
(* calculateTwoPartConfidence                                              *)
(*                                                                         *)
(* The confidence is a fraction: num over den, in units of ScoreOne.       *)
(***************************************************************************)

\* track.score || 0
ScoreOr0(track) == IF track.hasScore THEN track.score ELSE 0

\* reduce((sum, track) => sum + (track.score || 0), 0)
RECURSIVE SumScores(_)
SumScores(tracks) ==
    IF tracks = <<>> THEN 0 ELSE ScoreOr0(Head(tracks)) + SumScores(Tail(tracks))

\* Math.max(0, Math.min(1, num / den)) for den > 0
ClampFraction(num, den) ==
    [num |-> Max2(0, Min2(den * ScoreOne, num)), den |-> den]

\* weights of the two branches, in tenths
UserWeightTenths == 6
GlobalWeightTenths == 4

\* mutant: the weighted sum without the division by totalWeight
UnnormalizedConfidence(userSum, userLen, userWeight, globalSum, globalLen, globalWeight) ==
    LET userDen == Max2(userLen, 1)
        globalDen == Max2(globalLen, 1)
    IN  IF userWeight + globalWeight = 0 THEN [num |-> 0, den |-> 1]
        ELSE ClampFraction(userSum * userWeight * globalDen
                             + globalSum * globalWeight * userDen,
                           userDen * globalDen * (UserWeightTenths + GlobalWeightTenths))

\* the return statement, from the sums, lengths and weights of the branches
WeightedConfidence(userSum, userLen, userWeight, globalSum, globalLen, globalWeight) ==
    LET totalWeight == userWeight + globalWeight
        userDen == Max2(userLen, 1)
        globalDen == Max2(globalLen, 1)
    IN  IF totalWeight = 0 THEN [num |-> 0, den |-> 1]
        ELSE ClampFraction(userSum * userWeight * globalDen
                             + globalSum * globalWeight * userDen,
                           userDen * globalDen * totalWeight)

\* RecommendationEngine.calculateTwoPartConfidence
calculateTwoPartConfidence(twoPartRecommendations) ==
    LET userPlaylistTracks == twoPartRecommendations.fromUserPlaylists
        globalTracks == twoPartRecommendations.fromGlobalRecommendations
    IN  IF Len(userPlaylistTracks) = 0 /\ Len(globalTracks) = 0
        THEN [num |-> 0, den |-> 1]
        ELSE WeightedConfidence(
                 SumScores(userPlaylistTracks), Len(userPlaylistTracks),
                 IF Len(userPlaylistTracks) > 0 THEN UserWeightTenths ELSE 0,
                 SumScores(globalTracks), Len(globalTracks),
                 IF Len(globalTracks) > 0 THEN GlobalWeightTenths ELSE 0)

MaxBranch == 2

\* scores of ranked tracks: none, 0, 0.5 and 1.0
ScoredTracks ==
    { [hasScore |-> FALSE, score |-> 0] }
    \cup { [hasScore |-> TRUE, score |-> v] : v \in {0, ScoreOne \div 2, ScoreOne} }

BranchTracks == UNION { [1..n -> ScoredTracks] : n \in 0..MaxBranch }

ConfidenceInit ==
    /\ fnCall \in [fn : {"calculateTwoPartConfidence"}, done : {FALSE},
                   fromUserPlaylists : BranchTracks,
                   fromGlobalRecommendations : BranchTracks]
    /\ selIn = NoSelIn
    /\ selOut = NotRun
    /\ rankIn = NoRankIn
    /\ rankOut = NotRanked
    /\ engineVersion = TwoPart
    /\ StoresInit
    /\ RulesIdle

ConfidenceCall ==
    /\ fnCall.fn = "calculateTwoPartConfidence"
    /\ ~fnCall.done
    /\ fnCall' = [fnCall EXCEPT !.done = TRUE]
                   @@ [out |-> calculateTwoPartConfidence(fnCall)]
    /\ UNCHANGED pureVars
    /\ UNCHANGED storeVars
    /\ UNCHANGED ruleVars

SpecConfidence == ConfidenceInit /\ [][ConfidenceCall]_vars

ConfidenceDone == fnCall.fn = "calculateTwoPartConfidence" /\ fnCall.done

\* C14: calculateTwoPartConfidence returns 0.6 * userMean + 0.4 * globalMean
\* when both branches have tracks, the mean score of the populated branch when
\* only one has tracks, and 0 when both are empty; the result is in [0, 1].
C14_ConfidenceFormula ==
    ConfidenceDone =>
        LET userLen == Len(fnCall.fromUserPlaylists)
            globalLen == Len(fnCall.fromGlobalRecommendations)
            userSum == SumScores(fnCall.fromUserPlaylists)
            globalSum == SumScores(fnCall.fromGlobalRecommendations)
            out == fnCall.out
        IN  /\ out.den > 0
            /\ (userLen > 0 /\ globalLen > 0
                  => out.num * 10 * userLen * globalLen
                       = out.den * (6 * userSum * globalLen + 4 * globalSum * userLen))
            /\ (userLen > 0 /\ globalLen = 0 => out.num * userLen = out.den * userSum)
            /\ (userLen = 0 /\ globalLen > 0 => out.num * globalLen = out.den * globalSum)
            /\ (userLen = 0 /\ globalLen = 0 => out.num = 0)
            /\ 0 <= out.num
            /\ out.num <= out.den * ScoreOne

\* both branches populated, with different means: 0.6 * 0.75 + 0.4 * 0.5
C14_Witness ==
    /\ ConfidenceDone
    /\ Len(fnCall.fromUserPlaylists) = 2
    /\ Len(fnCall.fromGlobalRecommendations) = 1
    /\ SumScores(fnCall.fromUserPlaylists) = ScoreOne + ScoreOne \div 2
    /\ SumScores(fnCall.fromGlobalRecommendations) = ScoreOne \div 2
    /\ fnCall.out.num * 100 = fnCall.out.den * 65 * ScoreOne

(***************************************************************************)
(* The two branches of the two-part engine: split of the target length,    *)
(* diversity weight, ranking path                                          *)
(***************************************************************************)

LastTwoPartOk ==
    /\ last.op = "generate"
    /\ engineVersion = TwoPart
    /\ last.result.status = "ok"

\* C15: for a target length T the section fromUserPlaylists has at most
\* floor(0.4 * T) tracks, the section fromGlobalRecommendations at most
\* T - floor(0.4 * T), and the two together at most T.
C15_SplitRespectsTarget ==
    LastTwoPartOk =>
        LET T == TargetLengthOr20(last.options)
            userPortion == (4 * T) \div 10
            fromUser == last.result.fromUserPlaylists.tracks
            fromGlobal == last.result.fromGlobalRecommendations
        IN  /\ Len(fromUser) <= userPortion
            /\ Len(fromGlobal) <= T - userPortion
            /\ Len(fromUser) + Len(fromGlobal) <= T

\* T = 3: each branch had more tracks than its share and returns its share
C15_Witness ==
    /\ LastTwoPartOk
    /\ last.options.targetLength = 3
    /\ Len(last.result.fromUserPlaylists.tracks) = 1
    /\ Len(last.result.fromGlobalRecommendations) = 2
    /\ Len(filterTracksByContext(removeDuplicateTracks(PlaylistTracks), last.context)) > 1
    /\ Len(fetchCandidateTracks(last.env, last.env.candidates, 4)) > 2

\* the diversity weight the caller supplied, 0.3 when it supplied none
SuppliedWeight(options) == IF options.hasWeight THEN options.diversityWeight ELSE 3

\* what the global-catalog selection is when selectFinalTracks is given the
\* weight w
GlobalSelectionWith(env, context, userProfile, targetCount, w) ==
    LET candidateTracks == fetchCandidateTracks(env, env.candidates, targetCount * 2)
        ranked == rankTracks(candidateTracks, context, userProfile, env.candidates)
    IN  TagSource(selectFinalTracks(ranked.tracks, targetCount, w),
                  "global", "Discover new music")

\* the same for the single pipeline
PipelineSelectionWith(env, context, userProfile, targetLength, w) ==
    LET candidateTracks == fetchCandidateTracks(env, env.candidates, targetLength)
        ranked == rankTracks(candidateTracks, context, userProfile, env.candidates)
    IN  selectFinalTracks(ranked.tracks, targetLength, w)

\* C16: the global-catalog selection of a generateRecommendations call that
\* reached selectFinalTracks is the one selectFinalTracks makes with the
\* diversityWeight of the call's options, and with 0.3 when the options
\* carry none.
C16_SuppliedWeightUsed ==
    (last.op = "generate" /\ last.result.status = "ok"
       /\ last.result.recId = last.recId) =>
        LET T == TargetLengthOr20(last.options)
            w == SuppliedWeight(last.options)
        IN  IF engineVersion = TwoPart
            THEN last.result.fromGlobalRecommendations
                   = GlobalSelectionWith(last.env, last.context, EngineProfile,
                                         T - (4 * T) \div 10, w)
            ELSE last.result.recommendations
                   = PipelineSelectionWith(last.env, last.context, EngineProfile, T, w)

\* rankTracks was called the way one of the two branches calls it: well-formed
\* tracks, context and profile, and as candidates either the [] of the
\* user-playlist branch or a candidate profile with at least one genre
RankedAsInBranch ==
    /\ rankOut.done
    /\ Len(rankIn.tracks) > 0
    /\ rankIn.context.kind = WellFormed
    /\ rankIn.userProfile.kind = WellFormed
    /\ \/ rankIn.candidates.kind = EmptyArray
       \/ (rankIn.candidates.kind = WellFormed /\ Len(rankIn.candidates.genres) > 0)

\* C17: in both branches rankTracks takes the normal scoring path: the
\* uniform-0.5 degradation path is not taken, every returned track carries its
\* four sub-scores, its score is the clamped weighted sum times the penalties,
\* and the list is sorted by descending score.
C17_BranchesRankNormally ==
    RankedAsInBranch =>
        /\ ~rankOut.degraded
        /\ \A k \in 1..Len(rankOut.tracks) :
              LET t == rankOut.tracks[k]
              IN  /\ {"contextScore", "preferenceScore", "popularityScore",
                      "noveltyScore"} \subseteq DOMAIN t
                  /\ t.score
                       = Clamp01(ApplyPenalties(
                             RawScore(t.contextScore, t.preferenceScore,
                                      t.popularityScore, t.noveltyScore),
                             isRecentlyPlayed(t, rankIn.userProfile.recentIds),
                             t.explicit /\ rankIn.userProfile.avoidExplicit), ScoreOne)
        /\ \A k \in 1..(Len(rankOut.tracks) - 1) :
              rankOut.tracks[k].score >= rankOut.tracks[k + 1].score

(***************************************************************************)
(* selectFinalTracks: the lenient window and the diversity penalty         *)
(***************************************************************************)

\* position p of the result was filled while fewer than 0.7 * target tracks
\* were selected
InLenientWindow(p, targetLength) == 10 * (p - 1) < 7 * targetLength

SameTrack(a, b) == a.id = b.id /\ a.artists = b.artists /\ a.score = b.score

\* C18: while fewer than 0.7 * target tracks are selected every candidate is
\* admitted, so the result starts with the pool's tracks in rank order; a
\* track at a later position either has a finalScore above 0.2 or carries the
\* under-fill's finalScore of 0.8 * score.
C18_LenientWindowThenThreshold ==
    selOut.done =>
        \A p \in 1..Len(selOut.tracks) :
            LET t == selOut.tracks[p]
            IN  IF InLenientWindow(p, selIn.target)
                THEN SameTrack(t, selIn.pool[p])
                ELSE \/ 10 * t.finalScore > 2 * AdjDen * ScoreOne
                     \/ t.finalScore = t.score * ((AdjDen * 8) \div 10)

\* target 20: the first 14 of 16 low-scoring tracks are admitted with an
\* adjusted score of at most 0.2, the 15th is refused by the main pass and
\* comes back from the under-fill
C18_Witness ==
    /\ selOut.done
    /\ selIn.target = DefaultTarget
    /\ Len(selOut.tracks) = LongPoolLen
    /\ Len(SelectMainPass(selIn.pool, 1, <<>>, {}, selIn.target, selIn.weight)) = 14
    /\ \A p \in 1..14 : 10 * selOut.tracks[p].finalScore <= 2 * AdjDen * ScoreOne
    /\ selOut.tracks[15].finalScore = selOut.tracks[15].score * ((AdjDen * 8) \div 10)

ByArtistX(t) == "Artist X" \in t.artists

\* the crowded pool was the input of the call
CrowdedCall ==
    /\ selOut.done
    /\ selIn \in CrowdedPoolInputs

\* some track by another artist scores at least the penalty-adjusted score of
\* a repeated 'Artist X' track ranked above it
OtherWithinMargin(pool, diversityWeight) ==
    \E i, j \in 1..Len(pool) :
        /\ i < j
        /\ ByArtistX(pool[i])
        /\ \E h \in 1..(i - 1) : ByArtistX(pool[h])
        /\ ~ByArtistX(pool[j])
        /\ pool[j].score * AdjDen
             >= AdjustedScore(pool[i].score, DiversityPenalty(TRUE, 1), diversityWeight)

\* C19: from ten ranked tracks of which six are by 'Artist X', with target 5
\* and diversity weight 0.3, selectFinalTracks does not return five
\* 'Artist X' tracks when a track by another artist scores within the
\* penalty margin of a repeated 'Artist X' track ranked above it.
C19_NoFiveByOneArtist ==
    (CrowdedCall /\ OtherWithinMargin(selIn.pool, selIn.weight))
        => \E p \in 1..Len(selOut.tracks) : ~ByArtistX(selOut.tracks[p])

(***************************************************************************)
(* RecommendationRule.matches against its description                      *)
(***************************************************************************)

\* a populated list condition is satisfied by a context value it contains; a
\* context without the value does not satisfy it
ListSatisfied(list, value) == list = {} \/ (value # Absent /\ value \in list)

\* every populated condition field of the rule is satisfied by the context
EveryPopulatedConditionHolds(rule, context) ==
    LET conditions == rule.conditions
    IN  /\ ListSatisfied(conditions.timeOfDay, context.timeOfDay)
        /\ ListSatisfied(conditions.weather, context.condition)
        /\ ListSatisfied(conditions.season, context.season)
        /\ ListSatisfied(conditions.mood, context.mood)
        /\ ListSatisfied(conditions.activity, context.activity)
        /\ ListSatisfied(conditions.countries, context.country)
        /\ ListSatisfied(conditions.cities, context.city)
        /\ (conditions.tempMin # 0 => context.temperature >= conditions.tempMin)
        /\ (conditions.tempMax # 0 => context.temperature <= conditions.tempMax)

\* rules that differ in which condition fields are populated
MatchConditions ==
    { [NoConditions EXCEPT !.timeOfDay = t, !.mood = m, !.activity = a, !.tempMin = lo] :
        t \in {{}, {"morning"}}, m \in {{}, {"happy"}}, a \in {{}, {"working"}},
        lo \in {0, 15} }

MatchRules == { [MoodRule(WeightTen) EXCEPT !.conditions = c] : c \in MatchConditions }

MatchContexts ==
    [timeOfDay : {"morning", "evening"},
     condition : {"sunny"},
     temperature : {0, 13, 15},
     city : {"Jakarta"},
     country : {"ID"},
     season : {"summer"},
     mood : {Absent, "happy", "sad"},
     activity : {Absent, "working"}]

MatchesInit ==
    /\ fnCall \in [fn : {"matches"}, done : {FALSE}, rule : MatchRules,
                   context : MatchContexts]
    /\ selIn = NoSelIn
    /\ selOut = NotRun
    /\ rankIn = NoRankIn
    /\ rankOut = NotRanked
    /\ engineVersion = TwoPart
    /\ StoresInit
    /\ RulesIdle

MatchesCall ==
    /\ fnCall.fn = "matches"
    /\ ~fnCall.done
    /\ fnCall' = [fnCall EXCEPT !.done = TRUE]
                   @@ [out |-> matches(fnCall.rule, fnCall.context)]
    /\ UNCHANGED pureVars
    /\ UNCHANGED storeVars
    /\ UNCHANGED ruleVars

SpecMatches == MatchesInit /\ [][MatchesCall]_vars

\* C21: a rule matches a context if and only if every populated condition
\* field of the rule is satisfied by the context; a context that lacks the
\* value of a populated list does not satisfy it, and a populated temperature
\* range must contain the context temperature, 0 included.
C21_MatchesIffPopulatedHold ==
    (fnCall.fn = "matches" /\ fnCall.done) =>
        (fnCall.out <=> EveryPopulatedConditionHolds(fnCall.rule, fnCall.context))

(***************************************************************************)
(* RecommendationRule.findMatchingRules for stores of several sizes        *)
(***************************************************************************)
MaxStoreLen == 3

\* the rules a store may hold: the two default rules, a mood rule, and a
\* rule that has been switched off
InactiveRule ==
    [MoodRule(WeightTen) EXCEPT !.ruleId = "switched_off", !.isActive = FALSE,
                                !.priority = 10]
StoredRules == {MorningSunnyEnergetic, EveningRainyChill, MoodRule(WeightTen), InactiveRule}

LookupStores ==
    UNION { { st \in [1..n -> StoredRules] :
                \A a, b \in 1..n : st[a] = st[b] => a = b } : n \in 0..MaxStoreLen }

LookupContexts ==
    [timeOfDay : {"morning", "evening"},
     condition : {"sunny", "rainy"},
     temperature : {15},
     city : {"Jakarta"},
     country : {"ID"},
     season : {"summer"},
     mood : {"happy", "sad"},
     activity : {Absent}]

LookupLimits == {1, 2}

LookupInit ==
    /\ fnCall \in [fn : {"findMatchingRules"}, done : {FALSE}, store : LookupStores,
                   context : LookupContexts, limit : LookupLimits]
    /\ selIn = NoSelIn
    /\ selOut = NotRun
    /\ rankIn = NoRankIn
    /\ rankOut = NotRanked
    /\ engineVersion = TwoPart
    /\ StoresInit
    /\ RulesIdle

FindMatchingRulesCall ==
    /\ fnCall.fn = "findMatchingRules"
    /\ ~fnCall.done
    /\ fnCall' = [fnCall EXCEPT !.done = TRUE]
                   @@ [out |-> findMatchingRules(fnCall.store, fnCall.context,
                                                 fnCall.limit)]
    /\ UNCHANGED pureVars
    /\ UNCHANGED storeVars
    /\ UNCHANGED ruleVars

SpecLookup == LookupInit /\ [][FindMatchingRulesCall]_vars

\* the active rules of a store that match a context
ActiveMatching(store, context) ==
    { store[k] : k \in { j \in 1..Len(store) :
                           store[j].isActive /\ matches(store[j], context) } }

\* C22: findMatchingRules(context, N) returns the N highest-scoring rules among
\* all active rules that match the context, all of them when fewer than N
\* match, in descending order of match score, whatever the size of the store.
C22_TopNOfAllMatching ==
    (fnCall.fn = "findMatchingRules" /\ fnCall.done) =>
        LET all == ActiveMatching(fnCall.store, fnCall.context)
            out == fnCall.out
            returned == { out[k] : k \in 1..Len(out) }
            Score(rule) == getMatchScore(rule, fnCall.context)
        IN  /\ Len(out) = Min2(fnCall.limit, Cardinality(all))
            /\ Cardinality(returned) = Len(out)
            /\ returned \subseteq all
            /\ \A k \in 1..(Len(out) - 1) : Score(out[k]) >= Score(out[k + 1])
            /\ \A r \in all \ returned : \A q \in returned : Score(q) >= Score(r)

(***************************************************************************)
(* rankTracks: penalties and sub-scores on the scoring path                *)
(***************************************************************************)

\* rankTracks scored the tracks: its catch block was not entered
RankedNormally == rankOut.done /\ ~rankOut.degraded

\* the weighted sum of the sub-scores a ranked track carries
RawScoreOf(t) ==
    RawScore(t.contextScore, t.preferenceScore, t.popularityScore, t.noveltyScore)

RecentAndExplicitAvoided(t) ==
    /\ t.id \in rankIn.userProfile.recentIds
    /\ t.explicit
    /\ rankIn.userProfile.avoidExplicit

\* C23: on the scoring path the two penalties multiply: a recently played
\* track that is explicit while avoidExplicit is set scores rawScore * 0.7 *
\* 0.5, a track with one of the two conditions rawScore * 0.7 or rawScore *
\* 0.5, and a track with neither rawScore.
C23_PenaltiesMultiply ==
    RankedNormally =>
        \A k \in 1..Len(rankOut.tracks) :
            LET t == rankOut.tracks[k]
                recent == t.id \in rankIn.userProfile.recentIds
                explicitAvoided == t.explicit /\ rankIn.userProfile.avoidExplicit
            IN  100 * t.score
                  = (IF recent /\ explicitAvoided THEN 35
                     ELSE IF recent THEN 70
                     ELSE IF explicitAvoided THEN 50 ELSE 100) * RawScoreOf(t)

\* a scored track with both conditions, next to a scored track that is
\* explicit but was not played recently
C23_Witness ==
    /\ RankedNormally
    /\ Len(rankOut.tracks) = 2
    /\ \E a, b \in 1..2 :
          /\ RecentAndExplicitAvoided(rankOut.tracks[a])
          /\ 100 * rankOut.tracks[a].score = 35 * RawScoreOf(rankOut.tracks[a])
          /\ rankOut.tracks[a].score > 0
          /\ rankOut.tracks[b].explicit
          /\ rankOut.tracks[b].id \notin rankIn.userProfile.recentIds
          /\ 100 * rankOut.tracks[b].score = 50 * RawScoreOf(rankOut.tracks[b])

ByTopArtist(t) == t.artists \cap rankIn.userProfile.topArtists # {}

\* C24: on the scoring path the novelty score of a track is 0.1 if it was
\* played recently, else 0.6 if one of its artists is a top artist of the
\* user, else 0.8 if its popularity is above 20, else 0.5; and the preference
\* score of a track by a top artist with popularity in 30..80 is at least 0.7.
C24_NoveltyAndPreference ==
    RankedNormally =>
        \A k \in 1..Len(rankOut.tracks) :
            LET t == rankOut.tracks[k]
                recent == t.id \in rankIn.userProfile.recentIds
            IN  /\ recent => t.noveltyScore = 100
                /\ ~recent /\ ByTopArtist(t) => t.noveltyScore = 600
                /\ ~recent /\ ~ByTopArtist(t) /\ t.popularity > 20
                      => t.noveltyScore = 800
                /\ ~recent /\ ~ByTopArtist(t) /\ t.popularity <= 20
                      => t.noveltyScore = 500
                /\ ByTopArtist(t) /\ t.popularity >= 30 /\ t.popularity <= 80
                      => t.preferenceScore >= 700

\* a recently played track by a top artist with popularity 60, next to a
\* never-played track of popularity 15 by an artist the user does not know
C24_Witness ==
    /\ RankedNormally
    /\ Len(rankOut.tracks) = 2
    /\ \E a, b \in 1..2 :
          /\ ByTopArtist(rankOut.tracks[a])
          /\ rankOut.tracks[a].id \in rankIn.userProfile.recentIds
          /\ rankOut.tracks[a].popularity = 60
          /\ rankOut.tracks[a].noveltyScore = 100
          /\ rankOut.tracks[a].preferenceScore >= 700
          /\ ~ByTopArtist(rankOut.tracks[b])
          /\ rankOut.tracks[b].id \notin rankIn.userProfile.recentIds
          /\ rankOut.tracks[b].popularity = 15
          /\ rankOut.tracks[b].noveltyScore = 500

(***************************************************************************)
(* getCandidates while no stored rule is active                            *)
(***************************************************************************)

SwitchedOff(rule) == [rule EXCEPT !.isActive = FALSE]

NoActiveRuleStores ==
    { <<>>, <<InactiveRule>>,
      <<SwitchedOff(MorningSunnyEnergetic), SwitchedOff(EveningRainyChill)>> }

NoRuleContexts ==
    [timeOfDay : {"morning", "night"},
     condition : {"sunny", "rainy"},
     temperature : {20},
     city : {"Jakarta"},
     country : {"ID"},
     season : {"summer"},
     mood : {Absent},
     activity : {Absent}]

NoRuleInit ==
    /\ ruleStore \in NoActiveRuleStores
    /\ ruleCache = {}
    /\ ruleLast = NoRuleCall
    /\ fnCall = NoFnCall
    /\ selIn = NoSelIn
    /\ selOut = NotRun
    /\ rankIn = NoRankIn
    /\ rankOut = NotRanked
    /\ engineVersion = TwoPart
    /\ StoresInit

GetCandidatesNoRuleCall ==
    /\ \E context \in NoRuleContexts, dbOk \in BOOLEAN :
         LET out == getCandidates(context, ruleStore, ruleCache, dbOk)
         IN  /\ ruleCache' = out.cache
             /\ ruleLast' = [op |-> "getCandidates", context |-> context,
                             dbOk |-> dbOk, hit |-> out.hit,
                             matched |-> out.matched, result |-> out.result]
    /\ UNCHANGED <<ruleStore, fnCall>>
    /\ UNCHANGED pureVars
    /\ UNCHANGED storeVars

SpecNoRule == NoRuleInit /\ [][GetCandidatesNoRuleCall \/ CacheExpire]_vars

\* the last call was getCandidates for a sunny morning at 20 degrees
LastSunnyMorning ==
    /\ ruleLast.op = "getCandidates"
    /\ ruleLast.context.timeOfDay = "morning"
    /\ ruleLast.context.condition = "sunny"
    /\ ruleLast.context.temperature = 20

GenreNames(genres) == [k \in 1..Len(genres) |-> genres[k].name]

TargetIs(feature, thousandths) ==
    feature.target.num * PerMille = thousandths * feature.target.den

\* C25 as stated: with no stored rule active, getCandidates for a sunny
\* morning at 20 degrees yields the genres pop, indie, electronic, an energy
\* target of 0.7 and a valence target of 0.7.
C25_SunnyMorningAsStated ==
    LastSunnyMorning =>
        LET c == ruleLast.result.candidates
        IN  /\ GenreNames(c.genres) = <<"pop", "indie", "electronic">>
            /\ TargetIs(c.audioFeatures.energy, 700)
            /\ TargetIs(c.audioFeatures.valence, 700)

\* C25 amended: with no stored rule active, getCandidates for a sunny morning
\* at 20 degrees yields the genres pop, indie, electronic, an energy target
\* of 0.7 and a valence target of 0.8.
C25_SunnyMorningFallback ==
    LastSunnyMorning =>
        LET c == ruleLast.result.candidates
        IN  /\ GenreNames(c.genres) = <<"pop", "indie", "electronic">>
            /\ TargetIs(c.audioFeatures.energy, 700)
            /\ TargetIs(c.audioFeatures.valence, 800)

\* the call was answered from a store that holds switched-off rules only
C25_Witness ==
    /\ LastSunnyMorning
    /\ Len(ruleStore) = 2
    /\ ruleLast.dbOk /\ ~ruleLast.hit
    /\ ruleLast.result.appliedRules[1].ruleId = FallbackRuleId
    /\ TargetIs(ruleLast.result.candidates.audioFeatures.valence, 800)

(***************************************************************************)
(* combineAudioFeatures over the matched rules                             *)
(***************************************************************************)

MaxRules == 2

\* ranges of a feature on the 0..1 scale, and of tempo in beats per minute
UnitRanges ==
    { [min |-> 200, max |-> 700, target |-> 400, weight |-> 2],
      [min |-> 500, max |-> 1000, target |-> 700, weight |-> 0] }
TempoRanges ==
    { [min |-> 90000, max |-> 140000, target |-> 120000, weight |-> 2],
      [min |-> 100000, max |-> 160000, target |-> 130000, weight |-> 4] }

\* the audioFeatures of a rule: energy, tempo or both
RuleFeatures ==
    { [energy |-> e] : e \in UnitRanges }
    \cup { [tempo |-> t] : t \in TempoRanges }
    \cup { [energy |-> e, tempo |-> t] : e \in UnitRanges, t \in TempoRanges }

\* a matched rule as combineRuleRecommendations hands it on: its features and
\* priority * matchScore
Contributions == [features : RuleFeatures, weight : {1, 3}]

ContributionLists == UNION { [1..n -> Contributions] : n \in 1..MaxRules }

FeaturesInit ==
    /\ fnCall \in [fn : {"combineAudioFeatures"}, done : {FALSE},
                   sources : ContributionLists, rest : ContributionLists,
                   out : {NoFeatures}]
    /\ fnCall.rest = fnCall.sources
    /\ ruleStore = <<>>
    /\ ruleCache = {}
    /\ ruleLast = NoRuleCall
    /\ selIn = NoSelIn
    /\ selOut = NotRun
    /\ rankIn = NoRankIn
    /\ rankOut = NotRanked
    /\ engineVersion = TwoPart
    /\ StoresInit

\* one turn of the loop over the rules
CombineFeaturesStep ==
    /\ fnCall.fn = "combineAudioFeatures"
    /\ fnCall.rest # <<>>
    /\ fnCall' = [fnCall EXCEPT
                    !.out = combineAudioFeatures(fnCall.out, Head(fnCall.rest).features,
                                                 Head(fnCall.rest).weight),
                    !.rest = Tail(fnCall.rest),
                    !.done = (Len(fnCall.rest) = 1)]
    /\ UNCHANGED pureVars
    /\ UNCHANGED storeVars
    /\ UNCHANGED ruleVars

SpecFeatures == FeaturesInit /\ [][CombineFeaturesStep]_vars

\* the rules that carry feature f
Contributing(f) ==
    { k \in 1..Len(fnCall.sources) : f \in DOMAIN fnCall.sources[k].features }

\* what rule k adds for feature f: its share of the weight, and its target
\* times that share
ShareOf(f, k) ==
    IF k \in Contributing(f)
    THEN FeatureWeightOr1(fnCall.sources[k].features[f]) * fnCall.sources[k].weight
    ELSE 0
WeightedTargetOf(f, k) ==
    IF k \in Contributing(f)
    THEN fnCall.sources[k].features[f].target * ShareOf(f, k)
    ELSE 0

RECURSIVE ShareSum(_, _)
ShareSum(f, n) == IF n = 0 THEN 0 ELSE ShareOf(f, n) + ShareSum(f, n - 1)
RECURSIVE WeightedTargetSum(_, _)
WeightedTargetSum(f, n) ==
    IF n = 0 THEN 0 ELSE WeightedTargetOf(f, n) + WeightedTargetSum(f, n - 1)

\* the merged entry of f is the intersection of the contributing ranges and
\* the weight-averaged target
MergedAsIntersection(f) ==
    LET rules == Contributing(f)
        entry(k) == fnCall.sources[k].features[f]
        merged == fnCall.out[f]
        n == Len(fnCall.sources)
    IN  /\ \E k \in rules : merged.min = entry(k).min
        /\ \A k \in rules : merged.min >= entry(k).min
        /\ \E k \in rules : merged.max = entry(k).max
        /\ \A k \in rules : merged.max <= entry(k).max
        /\ merged.target.num * ShareSum(f, n)
             = WeightedTargetSum(f, n) * merged.target.den

FeaturesDone == fnCall.fn = "combineAudioFeatures" /\ fnCall.done

\* C26: for every audio feature combined over the matched rules, the merged
\* min is the largest min and the merged max the smallest max of the
\* contributing rules, and the merged target is their weight-averaged target,
\* for tempo as for the features on the 0..1 scale.
C26_RangesIntersect ==
    FeaturesDone => \A f \in DOMAIN fnCall.out : MergedAsIntersection(f)

(***************************************************************************)
(* fetchCandidateTracks when a catalog query fails or no seed is usable    *)
(***************************************************************************)

\* a candidate profile without genres, artists and themes
BareCandidates ==
    [kind |-> WellFormed, themes |-> <<>>, genres |-> <<>>, userArtists |-> <<>>]

\* what getRecommendations would answer when asked with the lone seed 'pop'
PopAnswers == { [ok |-> FALSE, tracks |-> <<>>], [ok |-> TRUE, tracks |-> CatalogTracks] }

FetchTargets == {1, 2, 4}

FetchInit ==
    /\ fnCall \in [fn : {"fetchCandidateTracks"}, done : {FALSE},
                   env : [recs : RecsAnswers, search : SearchAnswers],
                   pop : PopAnswers,
                   candidates : EngineCandidates \cup {BareCandidates},
                   targetLength : FetchTargets]
    /\ RulesIdle
    /\ selIn = NoSelIn
    /\ selOut = NotRun
    /\ rankIn = NoRankIn
    /\ rankOut = NotRanked
    /\ engineVersion = TwoPart
    /\ StoresInit

FetchCandidateTracksCall ==
    /\ fnCall.fn = "fetchCandidateTracks"
    /\ ~fnCall.done
    /\ fnCall' = [fnCall EXCEPT !.done = TRUE]
                    @@ [out |-> fetchCandidateTracks(fnCall.env, fnCall.candidates,
                                                     fnCall.targetLength)]
    /\ UNCHANGED pureVars
    /\ UNCHANGED storeVars
    /\ UNCHANGED ruleVars

SpecFetch == FetchInit /\ [][FetchCandidateTracksCall]_vars

FetchDone == fnCall.fn = "fetchCandidateTracks" /\ fnCall.done

NoUsableSeeds == fnCall.candidates.genres = <<>> /\ fnCall.candidates.userArtists = <<>>

\* a query fetchCandidateTracks sent to the catalog failed
CatalogQueryFailed ==
    \/ ~NoUsableSeeds /\ ~fnCall.env.recs.ok
    \/ /\ NoUsableSeeds \/ Len(fnCall.env.recs.tracks) < fnCall.targetLength
       /\ Len(fnCall.candidates.themes) > 0
       /\ ~fnCall.env.search.ok

\* C27: when a catalog query of fetchCandidateTracks fails, or the candidate
\* profile has no usable genre or artist seed, the pool returned is not empty
\* as long as the catalog answers the lone seed 'pop' with tracks, so that the
\* global branch does not throw for want of candidates.
C27_PopSeedInsteadOfEmptyPool ==
    FetchDone /\ (CatalogQueryFailed \/ NoUsableSeeds)
              /\ fnCall.pop.ok /\ fnCall.pop.tracks # <<>>
        => fnCall.out # <<>>

(***************************************************************************)
(* concurrent generateAndCreatePlaylist requests                           *)
(***************************************************************************)

MaxInFlight == 2

RaceContexts ==
    { [timeOfDay |-> "morning", weather |-> w, city |-> "Jakarta"] :
        w \in {"rainy", "sunny"} }

\* the recommendations the engine handed to the request
RaceRecommendations == CatalogTracks

\* every request has its recommendations and waits for the answer of
\* findRecentSimilarPlaylist; none asks for forceCreate
RaceInit ==
    /\ inFlight \in [1..MaxInFlight ->
                       [userId : UserIds, context : RaceContexts,
                        spotifyOk : BOOLEAN, pc : {"check"}, playlistId : {0},
                        isExisting : {FALSE}]]
    /\ recLogs = << >>
    /\ playlists = {}
    /\ spotify = {}
    /\ songs = {}
    /\ now = 0
    /\ nextId = 1
    /\ last = NoCall
    /\ RulesIdle
    /\ fnCall = NoFnCall
    /\ selIn = NoSelIn
    /\ selOut = NotRun
    /\ rankIn = NoRankIn
    /\ rankOut = NotRanked
    /\ engineVersion = TwoPart

\* createSpotifyPlaylist up to the answer of findRecentSimilarPlaylist
CheckStep(r) ==
    /\ inFlight[r].pc = "check"
    /\ LET existing == findRecentSimilarPlaylist(playlists, inFlight[r].userId,
                                                 inFlight[r].context, Window, now)
       IN  inFlight' = [inFlight EXCEPT ![r] =
                          IF existing.found
                          THEN [@ EXCEPT !.pc = "done", !.isExisting = TRUE,
                                         !.playlistId = existing.doc.spotifyPlaylistId]
                          ELSE [@ EXCEPT !.pc = "create"]]
    /\ UNCHANGED <<engineVersion, recLogs, playlists, spotify, songs, now, nextId, last>>

\* spotifyService.createPlaylist and addTracksToPlaylist answer
CreateStep(r) ==
    /\ inFlight[r].pc = "create"
    /\ IF inFlight[r].spotifyOk
       THEN /\ spotify' = spotify \cup
                            { [id |-> nextId, owner |-> inFlight[r].userId,
                               key |-> ContextKey(inFlight[r].context),
                               createdAt |-> now, forced |-> FALSE] }
            /\ nextId' = nextId + 1
            /\ inFlight' = [inFlight EXCEPT ![r].pc = "save", ![r].playlistId = nextId]
       ELSE /\ inFlight' = [inFlight EXCEPT ![r].pc = "done"]
            /\ UNCHANGED <<spotify, nextId>>
    /\ UNCHANGED <<engineVersion, recLogs, playlists, songs, now, last>>

\* savePlaylistToDatabase answers
SaveStep(r) ==
    /\ inFlight[r].pc = "save"
    /\ LET saved == savePlaylistToDatabase(inFlight[r].userId,
                                           [id |-> inFlight[r].playlistId],
                                           RaceRecommendations, inFlight[r].context,
                                           Stores)
       IN  /\ playlists' = saved.playlists
           /\ songs' = saved.songs
    /\ inFlight' = [inFlight EXCEPT ![r].pc = "done"]
    /\ UNCHANGED <<engineVersion, recLogs, spotify, now, nextId, last>>

RequestStep ==
    /\ \E r \in DOMAIN inFlight : CheckStep(r) \/ CreateStep(r) \/ SaveStep(r)
    /\ UNCHANGED pureVars
    /\ UNCHANGED ruleVars
    /\ UNCHANGED fnCall

SpecRace == RaceInit /\ [][RequestStep \/ Tick]_vars

\* playlists on Spotify for the user and the context of request r
CreatedFor(r) ==
    { p \in spotify : /\ p.owner = inFlight[r].userId
                      /\ p.key = ContextKey(inFlight[r].context) }

\* C28: two concurrent unforced generateAndCreatePlaylist requests of one
\* user for the same time of day, weather and city create at most one Spotify
\* playlist between them, however their checks, creations and saves
\* interleave.
C28_OnePlaylistForConcurrentRequests ==
    \A a, b \in DOMAIN inFlight :
        (/\ a # b
         /\ inFlight[a].userId = inFlight[b].userId
         /\ ContextKey(inFlight[a].context) = ContextKey(inFlight[b].context))
            => Cardinality(CreatedFor(a)) <= 1

(***************************************************************************)
(* RecommendationRule.updateEffectiveness                                  *)
(***************************************************************************)

\* a Number field: the exact fraction num / den, or with den = 0 one of
\* Infinity (num 1), -Infinity (num -1) and NaN (num 0)
Finite(n) == [num |-> n, den |-> 1]
PlusInfinity == [num |-> 1, den |-> 0]
MinusInfinity == [num |-> 0 - 1, den |-> 0]
IsNaN(v) == v.den = 0 /\ v.num = 0
IsInfinite(v) == v.den = 0 /\ v.num # 0
SignOf(n) == IF n > 0 THEN 1 ELSE 0 - 1

\* v * n, v + n and v / n for an integer n, as the floating-point operators
\* answer them
TimesInt(v, n) ==
    IF IsNaN(v) THEN NotANumber
    ELSE IF IsInfinite(v)
         THEN IF n = 0 THEN NotANumber ELSE [num |-> SignOf(v.num * n), den |-> 0]
    ELSE [num |-> v.num * n, den |-> v.den]
PlusInt(v, n) ==
    IF v.den = 0 THEN v ELSE [num |-> v.num + n * v.den, den |-> v.den]
OverInt(v, n) ==
    IF v.den = 0 THEN v
    ELSE IF n = 0
         THEN IF v.num = 0 THEN NotANumber ELSE [num |-> SignOf(v.num), den |-> 0]
    ELSE [num |-> v.num, den |-> v.den * n]

\* v || 0
NumberOr0(v) == IF IsNaN(v) THEN Finite(0) ELSE v

Null == "null"

\* rating = null: ratings are 1..5
NoRating == 0

\* ((current * (count - 1)) + amount) / count
RollingMean(current, count, amount) ==
    OverInt(PlusInt(TimesInt(NumberOr0(current), count - 1), amount), count)

\* the effectiveness fields after the assignments of updateEffectiveness
updateEffectiveness(effectiveness, applied, success, rating) ==
    LET count == effectiveness.appliedCount + (IF applied THEN 1 ELSE 0)
    IN  [appliedCount |-> count,
         successRate |-> IF success = Null THEN effectiveness.successRate
                         ELSE RollingMean(effectiveness.successRate, count,
                                          IF success = "true" THEN 1 ELSE 0),
         avgRating |-> IF rating = NoRating THEN effectiveness.avgRating
                       ELSE RollingMean(effectiveness.avgRating, count, rating)]

\* effectiveness of a new rule: the schema defaults
NewEffectiveness ==
    [appliedCount |-> 0, successRate |-> Finite(0), avgRating |-> Finite(0)]

MaxUpdates == 3

EffectivenessInit ==
    /\ fnCall = [fn |-> "updateEffectiveness", done |-> FALSE,
                 effectiveness |-> NewEffectiveness, calls |-> 0, appliedCalls |-> 0]
    /\ RulesIdle
    /\ selIn = NoSelIn
    /\ selOut = NotRun
    /\ rankIn = NoRankIn
    /\ rankOut = NotRanked
    /\ engineVersion = TwoPart
    /\ StoresInit

\* RuleEngine.updateRuleEffectiveness: the rule is loaded, updated and saved;
\* a NaN in a Number field is a value the save may refuse, and then nothing
\* of the update is stored
UpdateRuleEffectivenessCall ==
    /\ fnCall.fn = "updateEffectiveness"
    /\ fnCall.calls < MaxUpdates
    /\ \E applied \in BOOLEAN, success \in {"true", "false", Null}, rating \in {NoRating, 4},
          nanSaved \in BOOLEAN :
         LET updated == updateEffectiveness(fnCall.effectiveness, applied, success, rating)
             refused == (IsNaN(updated.successRate) \/ IsNaN(updated.avgRating))
                        /\ ~nanSaved
         IN  fnCall' = [fnCall EXCEPT
                          !.effectiveness = IF refused THEN @ ELSE updated,
                          !.calls = @ + 1,
                          !.appliedCalls = @ + (IF applied THEN 1 ELSE 0),
                          !.done = TRUE]
    /\ UNCHANGED pureVars
    /\ UNCHANGED storeVars
    /\ UNCHANGED ruleVars

SpecEffectiveness == EffectivenessInit /\ [][UpdateRuleEffectivenessCall]_vars

InZeroToOne(v) == v.den > 0 /\ v.num >= 0 /\ v.num <= v.den

\* the factor 1 + (successRate || 0) of getMatchScore is not negative
BoostNotNegative(v) ==
    LET rate == NumberOr0(v)
    IN  IF rate.den = 0 THEN rate.num > 0 ELSE rate.den + rate.num >= 0

\* C29: after any sequence of updateEffectiveness calls on a rule that starts
\* from the defaults, with applied true or false in any mix, successRate is a
\* number in [0, 1], appliedCount is the number of calls made with applied
\* true, and the factor getMatchScore takes from successRate keeps the score
\* at or above 0.
C29_SuccessRateWellDefined ==
    fnCall.fn = "updateEffectiveness" =>
        /\ InZeroToOne(fnCall.effectiveness.successRate)
        /\ fnCall.effectiveness.appliedCount = fnCall.appliedCalls
        /\ BoostNotNegative(fnCall.effectiveness.successRate)

(***************************************************************************)
(* selectFinalTracks returns tracks of the pool, each once                 *)
(***************************************************************************)

\* the returned track is a track of the pool with its finalScore added
FromPool(t, pool) ==
    \E j \in 1..Len(pool) : t = [finalScore |-> t.finalScore] @@ pool[j]

\* how many tracks the main pass admitted in the call under study
MainPassLen == Len(SelectMainPass(selIn.pool, 1, <<>>, {}, selIn.target, selIn.weight))

\* C30: for a ranked pool with pairwise-distinct ids, the list returned by
\* selectFinalTracks holds no track id twice and every returned track, the
\* under-fill tracks included, is a track of the pool.
C30_DistinctAndFromPool ==
    (selOut.done /\ DistinctIds(selIn.pool)) =>
        /\ DistinctIds(selOut.tracks)
        /\ \A k \in 1..Len(selOut.tracks) : FromPool(selOut.tracks[k], selIn.pool)

\* the under-fill block added at least two tracks after a main pass that had
\* admitted at least two
C30_Witness ==
    /\ selOut.done
    /\ DistinctIds(selIn.pool)
    /\ MainPassLen >= 2
    /\ Len(selOut.tracks) >= MainPassLen + 2
    /\ DistinctIds(selOut.tracks)
    /\ FromPool(selOut.tracks[Len(selOut.tracks)], selIn.pool)

====
